---- MODULE Spec2Model ----
(***************************************************************************)
(* RemotePSpy: the PSRP fragment defragmenter (remotepspy/psrp.py), the    *)
(* PSRP message parser it delivers to, the SOAP chunk defragmenter and the *)
(* WS-Management tracker WSManPS (remotepspy/winrm.py), and the PowerShell *)
(* provider's event parser (remotepspy/etw.py), as state machines.         *)
(*                                                                         *)
(* Byte strings are sequences of small integers.  A PSRP message header is *)
(* scaled to one byte, the message type; Python's None is the string       *)
(* "None".  Dictionaries are functions whose DOMAIN is the set of keys.    *)
(***************************************************************************)
EXTENDS Integers, Sequences, FiniteSets, TLC

\* ---------------------------------------------------------------- bounds
MaxSteps == 4
MaxFragId == 2
MaxSoapEvents == 3
MaxChunks == 2
MaxDocs == 3

\* ---------------------------------------------------------------- inputs
Shells == {"s1"}
MsgIds == {"m1"}
Objects == {7}
CmdIds == {"None", "c1"}
FragIds == 0 .. MaxFragId
\* payloads: <<1>> begins a message of a registered type, <<9>> one of an
\* unregistered type
Payloads == {<<1>>, <<9>>}

Frags ==
  [object_id : Objects, fragment_id : FragIds, e_flag : BOOLEAN, frag_data : Payloads]

\* a one-fragment object: fragment 0 carrying the end flag
WholeFrags == {f \in Frags : f.fragment_id = 0 /\ f.e_flag}

\* the raw fragment streams fed to new_fragment_data: one fragment, or two
\* whole objects one after the other (as in a creationXml)
Blobs == {<<f>> : f \in Frags} \cup {<<f, g>> : f \in WholeFrags, g \in WholeFrags}

\* -------------------------------------------------------------- variables
\* the event headers of two chunk streams: one with an ActivityId, one without
EventHeaders ==
  {[ActivityId |-> "A", ProcessId |-> 7, ThreadId |-> 8],
   [ProcessId |-> 7, ThreadId |-> 8]}
ChunkIds == 1 .. MaxChunks
SoapDocuments == {"a", "b"}
Events == [EventHeader : EventHeaders, index : ChunkIds, totalChunks : ChunkIds,
           SoapDocument : SoapDocuments]

VARIABLES
  shell_bufs,                        \* PSRPDefragmenter.shell_bufs
  pending_shell_bufs,                \* PSRPDefragmenter.pending_shell_bufs
  pending_shell_completed_messages,  \* PSRPDefragmenter.pending_shell_completed_messages
  delivered,    \* history: every call of completed_psrp_callback, in order
  epoch,        \* history: per shell, the number of delete_shell calls so far
  unreg,        \* history: shells deleted and not registered again by new_shell or promotion
  steps,        \* number of operations performed
  alt,          \* a second PSRPDefragmenter, run beside the first to compare two runs
  phase,        \* where the compared runs stand: [stage, next]
  partial_messages,  \* SoapDefragmenter.partial_messages
  emitted,      \* history: every call of completed_soap_callback, in order
  solo,         \* history: per key, a defragmenter that is given that key's events only
  chunk_runs,   \* history: per key, the chunks 1..k that arrived one after the other
  seen,         \* history: per key, the number of events that arrived for it
  receive_msgs, \* WSManPS.receive_msgs
  command_msgs, \* WSManPS.command_msgs
  delete_msgs,  \* WSManPS.delete_msgs
  create_msgs,  \* WSManPS.create_msgs
  commands,     \* WSManPS.commands
  libwim,       \* WSManPS.libwim: "loaded", or "None" when the library could not be set up
  shells,       \* PowerShellETWParser.shells
  activity_shell_contexts,  \* PowerShellETWParser.activity_shell_contexts
  outcome,      \* history: the last event-entry call: [event, raised, escaped, dropped, earlier]
  xpress,       \* one run of WSManPS._decompress_stream_data: its locals and its result
  parse,        \* one run of PSRPDefragmenter._new_fragment_data over a byte string
  lock,         \* self.lock of each ingress component: the thread holding it, or "None"
  threads       \* per trace thread: where it is in new_event, [pc, on, event, before]

psrpVars == <<shell_bufs, pending_shell_bufs, pending_shell_completed_messages,
              delivered, epoch, unreg, steps>>
pairVars == <<alt, phase>>
soapVars == <<partial_messages, emitted, solo, chunk_runs, seen>>
wsmanVars == <<receive_msgs, command_msgs, delete_msgs, create_msgs, commands, libwim>>
etwVars == <<shells, activity_shell_contexts>>
lockVars == <<lock, threads>>
restVars == <<wsmanVars, etwVars, outcome, xpress, parse, lockVars>>
vars == <<psrpVars, pairVars, soapVars, restVars>>

\* ------------------------------------------------------------ dictionaries
Put(f, k, v) == [x \in DOMAIN f \cup {k} |-> IF x = k THEN v ELSE f[x]]
Drop(f, k) == [x \in DOMAIN f \ {k} |-> f[x]]
EmptyDict == [x \in {} |-> 0]

\* ------------------------------------------------------------- PSRPParser
\* the registered message type codes (PSRPParser.MSG_TYPES), scaled
MSG_TYPES == {1, 2}

\* PSRPParser.new_psrp_message raises when the header cannot be unpacked
\* (message too short) or when _msg_type_name does not find the type.
new_psrp_message_raises(message) ==
  \/ Len(message) = 0
  \/ message[1] \notin MSG_TYPES

\* --------------------------------------------------------- PSRPDefragmenter
\* The defragmenter as a record, so that the same operators act on every copy.
Defrag ==
  [shell_bufs |-> shell_bufs,
   pending_shell_bufs |-> pending_shell_bufs,
   pending_shell_completed_messages |-> pending_shell_completed_messages,
   delivered |-> delivered]

InitDefrag ==
  [shell_bufs |-> EmptyDict,
   pending_shell_bufs |-> EmptyDict,
   pending_shell_completed_messages |-> EmptyDict,
   delivered |-> <<>>]

Ok(d) == [d |-> d, raised |-> FALSE]
Raise(d) == [d |-> d, raised |-> TRUE]

has_shell(d, shell_id) == shell_id \in DOMAIN d.shell_bufs

has_pending_shell(d, shell_id) == shell_id \in DOMAIN d.pending_shell_bufs

new_shell(d, shell_id) ==
  IF shell_id = "None" THEN d
  ELSE IF shell_id \in DOMAIN d.shell_bufs THEN d
  ELSE [d EXCEPT !.shell_bufs = Put(@, shell_id, EmptyDict)]

new_pending_shell(d, message_id) ==
  IF message_id = "None" THEN d
  ELSE IF message_id \in DOMAIN d.pending_shell_bufs THEN d
  ELSE [d EXCEPT !.pending_shell_bufs = Put(@, message_id, EmptyDict)]

\* the downstream callback of a known shell: PSRPParser.new_psrp_message.
\* `frags` is history: the fragments the delivered buffer was built from.
completed_psrp_callback(d, shell_id, object_id, message, command_id, frags, tag) ==
  LET call == [shell_id |-> shell_id, object_id |-> object_id, message |-> message,
               command_id |-> command_id, frags |-> frags, tag |-> tag]
      d1 == [d EXCEPT !.delivered = Append(@, call)]
  IN IF new_psrp_message_raises(message) THEN Raise(d1) ELSE Ok(d1)

pending_shell_message_callback(d, message_id, object_id, message, command_id, frags) ==
  LET old == IF message_id \in DOMAIN d.pending_shell_completed_messages
             THEN d.pending_shell_completed_messages[message_id] ELSE <<>>
      item == [object_id |-> object_id, message |-> message,
               command_id |-> command_id, frags |-> frags]
  IN Ok([d EXCEPT !.pending_shell_completed_messages =
                      Put(@, message_id, Append(old, item))])

BufsOf(d, pend) == IF pend THEN d.pending_shell_bufs ELSE d.shell_bufs

\* no buffer is held for the object
Fresh(d, pend, identifier, object_id) ==
  \/ identifier \notin DOMAIN BufsOf(d, pend)
  \/ object_id \notin DOMAIN BufsOf(d, pend)[identifier]

WithBufs(d, pend, bufs) ==
  IF pend THEN [d EXCEPT !.pending_shell_bufs = bufs] ELSE [d EXCEPT !.shell_bufs = bufs]

\* _append_frag_data; pend selects the (has, new, bufs, callback) quadruple
\* the three public entry points pass.  `tag` is history only: it marks the
\* fragment in the buffer's record of what it was built from.
append_frag_data(d, pend, identifier, object_id, fragment_id, s_flag, e_flag, frag_data, command_id, tag) ==
  LET d1 == IF identifier \in DOMAIN BufsOf(d, pend) THEN d
            ELSE IF pend THEN new_pending_shell(d, identifier)
            ELSE new_shell(d, identifier)
      bufs == BufsOf(d1, pend)
  IN IF identifier \notin DOMAIN bufs THEN Raise(d1)   \* KeyError: bufs[None]
     ELSE
       LET b0 == IF object_id \in DOMAIN bufs[identifier]
                 THEN bufs[identifier][object_id]
                 ELSE [last_fragment_id |-> -1, buffer |-> <<>>,
                       command_id |-> "None", frags |-> <<>>]
           b1 == [b0 EXCEPT !.command_id = command_id]
           expected_frag_id == b1.last_fragment_id + 1
           b2 == [b1 EXCEPT !.buffer = @ \o frag_data,
                            !.frags = Append(@, [fragment_id |-> fragment_id,
                                                 frag_data |-> frag_data,
                                                 e_flag |-> e_flag,
                                                 pend |-> pend, tag |-> tag])]
           rejected == WithBufs(d1, pend, Put(bufs, identifier, Put(bufs[identifier], object_id, b1)))
           appended == WithBufs(d1, pend, Put(bufs, identifier, Put(bufs[identifier], object_id, b2)))
           called == IF pend
                     THEN pending_shell_message_callback(appended, identifier, object_id,
                                                         b2.buffer, b2.command_id, b2.frags)
                     ELSE completed_psrp_callback(appended, identifier, object_id,
                                                  b2.buffer, b2.command_id, b2.frags, tag)
           popped == WithBufs(called.d, pend,
                              Put(BufsOf(called.d, pend), identifier,
                                  Drop(BufsOf(called.d, pend)[identifier], object_id)))
       IN IF expected_frag_id # fragment_id THEN Ok(rejected)
          ELSE IF ~e_flag THEN Ok(appended)
          ELSE IF called.raised THEN called
          ELSE Ok(popped)

\* new_fragment: one pre-parsed fragment of a known shell, no command id
new_fragment(d, shell_id, object_id, fragment_id, s_flag, e_flag, frag_data, tag) ==
  append_frag_data(d, FALSE, shell_id, object_id, fragment_id, s_flag, e_flag,
                   frag_data, "None", tag)

\* _new_fragment_data: the loop over the fragments of a stream; an exception
\* leaves the loop, the fragments after it are not looked at
RECURSIVE new_fragment_data_loop(_, _, _, _, _, _)
new_fragment_data_loop(d, pend, identifier, fragment_data, command_id, tag) ==
  IF fragment_data = <<>> THEN Ok(d)
  ELSE LET f == Head(fragment_data)
           r == append_frag_data(d, pend, identifier, f.object_id, f.fragment_id,
                                 f.fragment_id = 0, f.e_flag, f.frag_data, command_id, tag)
       IN IF r.raised THEN r
          ELSE new_fragment_data_loop(r.d, pend, identifier, Tail(fragment_data),
                                      command_id, tag)

new_fragment_data(d, shell_id, fragment_data, command_id, tag) ==
  new_fragment_data_loop(d, FALSE, shell_id, fragment_data, command_id, tag)

new_fragment_data_pending_shell(d, message_id, fragment_data, command_id) ==
  new_fragment_data_loop(d, TRUE, message_id, fragment_data, command_id, -1)

\* the loop of set_pending_shell_id over the stashed messages; the first
\* call that raises ends it
RECURSIVE send_completed(_, _, _, _)
send_completed(d, shell_id, stash, tag) ==
  IF stash = <<>> THEN Ok(d)
  ELSE LET m == Head(stash)
           r == completed_psrp_callback(d, shell_id, m.object_id, m.message,
                                        m.command_id, m.frags, tag)
       IN IF r.raised THEN r ELSE send_completed(r.d, shell_id, Tail(stash), tag)

set_pending_shell_id(d, message_id, shell_id, tag) ==
  IF message_id \notin DOMAIN d.pending_shell_bufs
  THEN Ok(new_shell(d, shell_id))
  ELSE
    LET bufs == d.pending_shell_bufs[message_id]
        d1 == [d EXCEPT !.pending_shell_bufs = Drop(@, message_id)]
        d2 == IF shell_id \in DOMAIN d1.shell_bufs THEN d1
              ELSE [d1 EXCEPT !.shell_bufs = Put(@, shell_id, bufs)]
    IN IF message_id \in DOMAIN d2.pending_shell_completed_messages
       THEN LET r == send_completed(d2, shell_id,
                                    d2.pending_shell_completed_messages[message_id], tag)
            IN IF r.raised THEN r
               ELSE Ok([r.d EXCEPT !.pending_shell_completed_messages = Drop(@, message_id)])
       ELSE Raise(d2)   \* KeyError: pop of a message id with nothing stashed

\* delete_shell with the pop forgotten
delete_shell_keeps(d, shell_id) == d

delete_shell(d, shell_id) ==
  IF shell_id \in DOMAIN d.shell_bufs
  THEN [d EXCEPT !.shell_bufs = Drop(@, shell_id)]
  ELSE d

\* ------------------------------------------------------------ the history
Tag(shell_id) == IF shell_id \in DOMAIN epoch THEN epoch[shell_id] ELSE 0

SetDefrag(d) ==
  /\ shell_bufs' = d.shell_bufs
  /\ pending_shell_bufs' = d.pending_shell_bufs
  /\ pending_shell_completed_messages' = d.pending_shell_completed_messages
  /\ delivered' = d.delivered

\* ------------------------------------------------- PSRPDefragmenter actions
\* An exception raised inside an operation reaches the caller; what the
\* operation had done to the dictionaries by then stays done.
\* the record of an event-entry call: which event it was, whether its body
\* raised, whether the exception left the handler, the shells whose buffers
\* the defragmenter held before the call and not after it, and whether the
\* body of an earlier call had raised
Outcome(event, raised, escaped, dropped, earlier) ==
  [event |-> event, raised |-> raised, escaped |-> escaped, dropped |-> dropped,
   earlier |-> earlier]

NoOutcome == Outcome("none", FALSE, FALSE, {}, FALSE)

\* no call of _new_fragment_data over a byte string is under way
NoParse ==
  [fragments |-> <<>>, fragment_data |-> <<>>, well_formed |-> TRUE, submitted |-> <<>>,
   at |-> "idle"]

\* the two components that take events from the trace threads, each with a
\* lock of its own, and the threads that deliver the events
Components == {"SoapDefragmenter", "PowerShellETWParser"}
Threads == {"t1", "t2"}

\* a thread that is in no call of new_event
Idle == [pc |-> "idle", on |-> "none", event |-> "none", before |-> "none"]

\* what construction leaves, but for WSManPS.libwim and the decompressor run
InitOther ==
  /\ shell_bufs = EmptyDict
  /\ pending_shell_bufs = EmptyDict
  /\ pending_shell_completed_messages = EmptyDict
  /\ delivered = <<>>
  /\ epoch = [s \in Shells |-> 0]
  /\ unreg = {}
  /\ steps = 0
  /\ alt = InitDefrag
  /\ phase = [stage |-> "none", next |-> 0]
  /\ partial_messages = EmptyDict
  /\ emitted = <<>>
  /\ solo = EmptyDict
  /\ chunk_runs = EmptyDict
  /\ seen = EmptyDict
  /\ receive_msgs = EmptyDict
  /\ command_msgs = EmptyDict
  /\ delete_msgs = EmptyDict
  /\ create_msgs = <<>>
  /\ commands = EmptyDict
  /\ shells = <<>>
  /\ activity_shell_contexts = EmptyDict
  /\ outcome = NoOutcome
  /\ parse = NoParse
  /\ lock = [c \in Components |-> "None"]
  /\ threads = [t \in Threads |-> Idle]

\* no call of _decompress_stream_data is under way
NoXpress ==
  [blocks |-> <<>>, stream_blob |-> <<>>, fully_decompressed |-> <<>>, calls |-> 0,
   at |-> "idle"]

Init == InitOther /\ libwim = "loaded" /\ xpress = NoXpress

NewShell(shell_id) ==
  /\ steps < MaxSteps
  /\ SetDefrag(new_shell(Defrag, shell_id))
  /\ unreg' = unreg \ {shell_id}
  /\ steps' = steps + 1
  /\ UNCHANGED <<epoch, pairVars, soapVars, restVars>>

NewPendingShell(message_id) ==
  /\ steps < MaxSteps
  /\ SetDefrag(new_pending_shell(Defrag, message_id))
  /\ steps' = steps + 1
  /\ UNCHANGED <<epoch, unreg, pairVars, soapVars, restVars>>

NewFragment(shell_id, object_id, fragment_id, s_flag, e_flag, frag_data) ==
  /\ steps < MaxSteps
  /\ SetDefrag(new_fragment(Defrag, shell_id, object_id, fragment_id, s_flag, e_flag,
                            frag_data, Tag(shell_id)).d)
  /\ steps' = steps + 1
  /\ UNCHANGED <<epoch, unreg, pairVars, soapVars, restVars>>

NewFragmentData(shell_id, fragment_data, command_id) ==
  /\ steps < MaxSteps
  /\ SetDefrag(new_fragment_data(Defrag, shell_id, fragment_data, command_id,
                                 Tag(shell_id)).d)
  /\ steps' = steps + 1
  /\ UNCHANGED <<epoch, unreg, pairVars, soapVars, restVars>>

\* the one caller, WSManPS._action_create, passes no command id
NewFragmentDataPendingShell(message_id, fragment_data) ==
  /\ steps < MaxSteps
  /\ SetDefrag(new_fragment_data_pending_shell(Defrag, message_id, fragment_data,
                                               "None").d)
  /\ steps' = steps + 1
  /\ UNCHANGED <<epoch, unreg, pairVars, soapVars, restVars>>

SetPendingShellId(message_id, shell_id) ==
  /\ steps < MaxSteps
  /\ SetDefrag(set_pending_shell_id(Defrag, message_id, shell_id, Tag(shell_id)).d)
  /\ unreg' = unreg \ {shell_id}
  /\ steps' = steps + 1
  /\ UNCHANGED <<epoch, pairVars, soapVars, restVars>>

DeleteShell(shell_id) ==
  /\ steps < MaxSteps
  /\ SetDefrag(delete_shell(Defrag, shell_id))
  /\ epoch' = [epoch EXCEPT ![shell_id] = @ + 1]
  /\ unreg' = unreg \cup {shell_id}
  /\ steps' = steps + 1
  /\ UNCHANGED <<pairVars, soapVars, restVars>>

Next ==
  \/ \E s \in Shells : NewShell(s)
  \/ \E m \in MsgIds : NewPendingShell(m)
  \/ \E s \in Shells, o \in Objects, f \in FragIds, sf \in BOOLEAN, e \in BOOLEAN,
        p \in Payloads : NewFragment(s, o, f, sf, e, p)
  \/ \E s \in Shells, b \in Blobs, c \in CmdIds : NewFragmentData(s, b, c)
  \/ \E m \in MsgIds, b \in Blobs : NewFragmentDataPendingShell(m, b)
  \/ \E m \in MsgIds, s \in Shells : SetPendingShellId(m, s)
  \/ \E s \in Shells : DeleteShell(s)

Spec == Init /\ [][Next]_vars

\* ------------------------------------------------------------------ WSManPS
\* A SOAP document is the record of what the handlers look up in it:
\*   parses      ET.fromstring succeeds
\*   header      s:Header is present
\*   action      text of a:Action ("None": no such element)
\*   resource_uri, message_id, relates_to   texts of the header elements
\*   shell_id    text of the header's ShellId selector
\*   body        what the handler of the action reads in s:Body
\* A base64 text is [text, data]: text is "None" (no element), "bad"
\* (undecodable) or "ok", and data is what b64decode returns.
PS_RESOURCE_URI == "PS"
CMD_STATE_DONE == "Done"

ps_actions ==
  {"CreateResponse", "DeleteResponse", "Create", "Delete", "fault", "CommandResponse",
   "ReceiveResponse", "Command", "Receive", "Signal"}

\* the WSManPS object as a record
WSMan ==
  [receive_msgs |-> receive_msgs, command_msgs |-> command_msgs,
   delete_msgs |-> delete_msgs, create_msgs |-> create_msgs, commands |-> commands,
   libwim |-> libwim, psrp_defrag |-> Defrag]

Done(w) == [w |-> w, raised |-> FALSE]
Raised(w) == [w |-> w, raised |-> TRUE]

InList(list, x) == \E i \in DOMAIN list : list[i] = x

\* list.remove(x): the first occurrence
RECURSIVE Remove(_, _)
Remove(list, x) ==
  IF list = <<>> THEN <<>>
  ELSE IF Head(list) = x THEN Tail(list)
  ELSE <<Head(list)>> \o Remove(Tail(list), x)

get_shell_id(doc) == doc.shell_id

\* the handler's state once a defragmenter call has ended as r: [w, raised]
WithDefrag(w, r) == [w |-> [w EXCEPT !.psrp_defrag = r.d], raised |-> r.raised]

\* _known_shell_id_or_resource_uri: [w, known]
known_shell_id_or_resource_uri(w, doc) ==
  LET shell_id == get_shell_id(doc)
  IN IF has_shell(w.psrp_defrag, shell_id) THEN [w |-> w, known |-> TRUE]
     ELSE IF doc.resource_uri = PS_RESOURCE_URI
     THEN [w |-> IF shell_id # "None"
                 THEN [w EXCEPT !.psrp_defrag = new_shell(@, shell_id)]
                 ELSE w,
           known |-> TRUE]
     ELSE [w |-> w, known |-> FALSE]

\* _track_shell_id: tracking_dict[key] = shell_id when the header names a shell
track_shell_id(doc, key, tracking_dict) ==
  IF doc.shell_id # "None" /\ doc.shell_id # ""
  THEN Put(tracking_dict, key, doc.shell_id)
  ELSE tracking_dict

track_receive(w, message_id, doc) ==
  [w EXCEPT !.receive_msgs = track_shell_id(doc, message_id, @)]

track_delete(w, message_id, doc) ==
  [w EXCEPT !.delete_msgs = track_shell_id(doc, message_id, @)]

track_command(w, message_id, doc) ==
  [w EXCEPT !.command_msgs = track_shell_id(doc, message_id, @)]

\* _track_command_by_id; the warning formats self.commands[command_id], which
\* raises KeyError when shell_id is a key of commands and command_id is not
track_command_by_id(w, command_id, shell_id) ==
  IF shell_id # "None" /\ shell_id # ""
  THEN IF shell_id \in DOMAIN w.commands /\ command_id \notin DOMAIN w.commands
       THEN Raised(w)
       ELSE Done([w EXCEPT !.commands = Put(@, command_id, shell_id)])
  ELSE Done(w)

track_create(w, message_id) ==
  IF InList(w.create_msgs, message_id) THEN w
  ELSE [w EXCEPT !.create_msgs = Append(@, message_id)]

action_create_response(w, doc) ==
  LET relates_to == doc.relates_to
      pending_match == relates_to # "None" /\ InList(w.create_msgs, relates_to)
      w1 == IF pending_match THEN [w EXCEPT !.create_msgs = Remove(@, relates_to)] ELSE w
      body_resource_uri == doc.body.body_resource_uri
      shell_id == doc.body.shell_id
  IN IF ~doc.body.resource_created THEN Done(w1)
     ELSE IF ~doc.body.res_params THEN Done(w1)
     ELSE IF ~pending_match /\ body_resource_uri # PS_RESOURCE_URI THEN Done(w1)
     ELSE IF shell_id = "None" THEN Done(w1)
     ELSE WithDefrag(w1, set_pending_shell_id(w1.psrp_defrag, relates_to, shell_id, 0))

\* _action_delete_response that stops tracking the request and keeps the shell
action_delete_response_keeps_shell(w, doc) ==
  LET relates_to == doc.relates_to
  IN IF relates_to = "None" \/ relates_to \notin DOMAIN w.delete_msgs THEN Done(w)
     ELSE Done([w EXCEPT !.delete_msgs = Drop(@, relates_to)])

action_delete_response(w, doc) ==
  LET relates_to == doc.relates_to
  IN IF relates_to = "None" \/ relates_to \notin DOMAIN w.delete_msgs THEN Done(w)
     ELSE LET shell_id == w.delete_msgs[relates_to]
              w1 == [w EXCEPT !.delete_msgs = Drop(@, relates_to)]
          IN IF has_shell(w1.psrp_defrag, shell_id)
             THEN Done([w1 EXCEPT !.psrp_defrag = delete_shell(@, shell_id)])
             ELSE Done(w1)

action_create(w, doc) ==
  IF doc.resource_uri # PS_RESOURCE_URI THEN Done(w)
  ELSE IF ~doc.body.shell THEN Done(w)
  ELSE LET w1 == track_create(w, doc.message_id)
           creation_xml == doc.body.creation_xml
       IN IF creation_xml.text = "None" THEN Raised(w1)   \* None.encode: AttributeError
          ELSE IF creation_xml.text = "bad" THEN Done(w1) \* binascii.Error, caught
          ELSE WithDefrag(w1, new_fragment_data_pending_shell(
                                new_pending_shell(w1.psrp_defrag, doc.message_id),
                                doc.message_id, creation_xml.data, "None"))

action_delete(w, doc) ==
  LET k == known_shell_id_or_resource_uri(w, doc)
  IN IF ~k.known THEN Done(k.w)
     ELSE Done(track_delete(k.w, doc.message_id, doc))

action_fault(w, doc) == Done(w)

\* _action_signal that ends the shell the Signal names
action_signal_ends_shell(w, doc) ==
  Done([w EXCEPT !.psrp_defrag = delete_shell(@, doc.shell_id)])

action_signal(w, doc) ==
  Done(w)

\* struct.unpack('<H', ...) of two bytes
unpack_H(lo, hi) == lo + 256 * hi

\* what wimlib_decompress leaves in the output buffer is outside the program:
\* a buffer of uncompressed_size bytes of unknown content
XPRESS_OUTPUT == "?"

\* the loop of _decompress_stream_data: [raised, data, calls], calls counting
\* the invocations of wimlib_decompress
RECURSIVE decompress_blocks(_, _, _)
decompress_blocks(stream_blob, fully_decompressed, calls) ==
  IF stream_blob = <<>>
  THEN [raised |-> FALSE, data |-> fully_decompressed, calls |-> calls]
  ELSE IF Len(stream_blob) < 4
  THEN [raised |-> TRUE, data |-> fully_decompressed, calls |-> calls]  \* struct.error
  ELSE LET uncompressed_size == unpack_H(stream_blob[1], stream_blob[2]) + 1
           compressed_size == unpack_H(stream_blob[3], stream_blob[4]) + 1
           rest == SubSeq(stream_blob, 5, Len(stream_blob))
           compressed_block ==
             SubSeq(rest, 1, IF compressed_size < Len(rest) THEN compressed_size ELSE Len(rest))
           compressed == uncompressed_size # compressed_size
           final_block_data ==
             IF compressed THEN [i \in 1 .. uncompressed_size |-> XPRESS_OUTPUT]
             ELSE compressed_block
       IN decompress_blocks(SubSeq(rest, compressed_size + 1, Len(rest)),
                            fully_decompressed \o final_block_data,
                            IF compressed THEN calls + 1 ELSE calls)

\* _decompress_stream_data
decompress_stream_data(lib, stream_blob) ==
  IF lib = "None" THEN [raised |-> TRUE, data |-> <<>>, calls |-> 0]
  ELSE decompress_blocks(stream_blob, <<>>, 0)

action_command_response(w, doc) ==
  LET relates_to == doc.relates_to
      command_id == doc.body.command_id
  IN IF relates_to = "None" \/ relates_to \notin DOMAIN w.command_msgs THEN Done(w)
     ELSE IF command_id = "None" THEN Done(w)
     ELSE LET shell_id == w.command_msgs[relates_to]
              w1 == [w EXCEPT !.command_msgs = Drop(@, relates_to)]
          IN track_command_by_id(w1, command_id, shell_id)

\* the CommandState elements that report a command finished, as the keys of
\* commands_finished in insertion order
RECURSIVE commands_finished_of(_, _)
commands_finished_of(command_states, found) ==
  IF command_states = <<>> THEN found
  ELSE LET cs == Head(command_states)
           finished == /\ cs.CommandId # "None"
                       /\ (cs.State = CMD_STATE_DONE \/ cs.exit_code # "None")
       IN commands_finished_of(Tail(command_states),
                               IF finished /\ ~InList(found, cs.CommandId)
                               THEN Append(found, cs.CommandId) ELSE found)

\* the loop over the Stream elements; nothing in it catches what
\* stream_element.text.encode, _decompress_stream_data or new_fragment_data raise
RECURSIVE feed_streams(_, _, _)
\* the rest of the loop once a stream has been given to new_fragment_data
next_stream(fed, shell_id, streams) ==
  IF fed.raised THEN fed ELSE feed_streams(fed.w, shell_id, streams)

\* a stream once decoded and given to _decompress_stream_data
feed_decompressed(w, shell_id, decompressed, command_id, streams) ==
  IF decompressed.raised THEN Raised(w)
  ELSE next_stream(WithDefrag(w, new_fragment_data(w.psrp_defrag, shell_id,
                                                   decompressed.data, command_id, 0)),
                   shell_id, streams)

feed_streams(w, shell_id, streams) ==
  IF streams = <<>> THEN Done(w)
  ELSE LET stream_element == Head(streams)
       IN IF stream_element.text = "None" THEN Raised(w)   \* None.encode: AttributeError
          ELSE IF stream_element.text = "bad" THEN feed_streams(w, shell_id, Tail(streams))
          ELSE feed_decompressed(w, shell_id,
                                 decompress_stream_data(w.libwim, stream_element.data),
                                 stream_element.CommandId, Tail(streams))

\* the loop that pops the finished commands: pop without a default
RECURSIVE pop_finished(_, _)
pop_finished(w, finished) ==
  IF finished = <<>> THEN Done(w)
  ELSE IF Head(finished) \notin DOMAIN w.commands THEN Raised(w)   \* KeyError
  ELSE pop_finished([w EXCEPT !.commands = Drop(@, Head(finished))], Tail(finished))

\* the pop loop comes after the stream loop: it runs when that loop ended
pop_if_fed(fed, commands_finished) ==
  IF fed.raised THEN fed ELSE pop_finished(fed.w, commands_finished)

action_receive_response(w, doc) ==
  LET relates_to == doc.relates_to
  IN IF relates_to = "None" \/ relates_to \notin DOMAIN w.receive_msgs THEN Done(w)
     ELSE pop_if_fed(feed_streams([w EXCEPT !.receive_msgs = Drop(@, relates_to)],
                                  w.receive_msgs[relates_to], doc.body.streams),
                     commands_finished_of(doc.body.command_states, <<>>))

\* _track_command comes after new_fragment_data: it runs when that returned
track_if_fed(fed, doc) ==
  IF fed.raised THEN fed ELSE Done(track_command(fed.w, doc.message_id, doc))

action_command(w, doc) ==
  LET shell_id == get_shell_id(doc)
      k == known_shell_id_or_resource_uri(w, doc)
      arguments == doc.body.arguments
  IN IF ~k.known THEN Done(k.w)
     ELSE IF arguments.text = "None" THEN Done(k.w)
     ELSE IF arguments.text = "bad" THEN Done(track_command(k.w, doc.message_id, doc))
     ELSE track_if_fed(WithDefrag(k.w, new_fragment_data(k.w.psrp_defrag, shell_id,
                                                         arguments.data, "None", 0)),
                       doc)

\* the loop over the DesiredStream elements
RECURSIVE track_desired(_, _, _)
track_desired(w, shell_id, desired_streams) ==
  IF desired_streams = <<>> THEN Done(w)
  ELSE LET command_id == Head(desired_streams)
       IN IF command_id # "None" /\ command_id \notin DOMAIN w.commands
          THEN LET r == track_command_by_id(w, command_id, shell_id)
               IN IF r.raised THEN r
                  ELSE track_desired(r.w, shell_id, Tail(desired_streams))
          ELSE track_desired(w, shell_id, Tail(desired_streams))

action_receive(w, doc) ==
  LET shell_id == get_shell_id(doc)
      k == known_shell_id_or_resource_uri(w, doc)
  IN IF ~k.known THEN Done(k.w)
     ELSE track_desired(track_receive(k.w, doc.message_id, doc), shell_id,
                        doc.body.desired_streams)

\* self.ps_actions[action](...)
handler(w, doc) ==
  CASE doc.action = "CreateResponse" -> action_create_response(w, doc)
    [] doc.action = "DeleteResponse" -> action_delete_response(w, doc)
    [] doc.action = "Create" -> action_create(w, doc)
    [] doc.action = "Delete" -> action_delete(w, doc)
    [] doc.action = "fault" -> action_fault(w, doc)
    [] doc.action = "CommandResponse" -> action_command_response(w, doc)
    [] doc.action = "ReceiveResponse" -> action_receive_response(w, doc)
    [] doc.action = "Command" -> action_command(w, doc)
    [] doc.action = "Receive" -> action_receive(w, doc)
    [] doc.action = "Signal" -> action_signal(w, doc)

\* does new_soap pass the document to its handler
dispatched(doc) ==
  /\ doc.parses
  /\ doc.header
  /\ doc.action \in ps_actions
  /\ ~(doc.resource_uri # "None" /\ doc.resource_uri # PS_RESOURCE_URI)

\* the body of new_soap's try block: [w, raised]
new_soap_body(w, doc) ==
  IF ~doc.parses THEN Raised(w)     \* ET.fromstring: ParseError
  ELSE IF ~dispatched(doc) THEN Done(w)
  ELSE handler(w, doc)

\* an exception leaves the handler
Uncaught(r) == [w |-> r.w, raised |-> r.raised, escaped |-> r.raised]

\* except Exception: the exception is logged and goes no further
Caught(r) == [w |-> r.w, raised |-> r.raised, escaped |-> FALSE]

\* new_soap without the catch-all
new_soap_uncaught(w, doc) == Uncaught(new_soap_body(w, doc))

\* WSManPS.new_soap: whatever the body raises is logged; what the body had
\* done to the tables by then stays done
new_soap(w, doc) == Caught(new_soap_body(w, doc))

\* --- the documents given to new_soap
Base64Texts(datas) ==
  {[text |-> "None", data |-> <<>>], [text |-> "bad", data |-> <<>>]}
    \cup {[text |-> "ok", data |-> d] : d \in datas}

\* a stream of stored XPRESS blocks: each block is a header of two u16, both
\* the body's length less one, and the body
RECURSIVE StoredStream(_)
StoredStream(bodies) ==
  IF bodies = <<>> THEN <<>>
  ELSE LET n == Len(Head(bodies)) - 1
       IN <<n % 256, n \div 256, n % 256, n \div 256>> \o Head(bodies)
            \o StoredStream(Tail(bodies))

Whole(payload) ==
  [object_id |-> 7, fragment_id |-> 0, e_flag |-> TRUE, frag_data |-> payload]

\* fragment streams carried by documents: a whole message of a registered
\* type, one of an unregistered type, and the first fragment of a longer one
DocBlobs ==
  {<<Whole(<<1>>)>>, <<Whole(<<9>>)>>,
   <<[object_id |-> 7, fragment_id |-> 0, e_flag |-> FALSE, frag_data |-> <<1>>]>>}

NoBody == [none |-> TRUE]

Doc(action, resource_uri, message_id, relates_to, shell_id, body) ==
  [parses |-> TRUE, header |-> TRUE, action |-> action, resource_uri |-> resource_uri,
   message_id |-> message_id, relates_to |-> relates_to, shell_id |-> shell_id,
   body |-> body]

Uris == {"None", PS_RESOURCE_URI, "Other"}
ShellIds == Shells \cup {"None"}
RelatesTos == MsgIds \cup {"None"}

CreateDocs ==
  {Doc("Create", u, m, "None", "None", [shell |-> TRUE, creation_xml |-> x]) :
     u \in {PS_RESOURCE_URI, "None"}, m \in MsgIds, x \in Base64Texts(DocBlobs)}
  \cup {Doc("Create", PS_RESOURCE_URI, m, "None", "None",
            [shell |-> FALSE, creation_xml |-> [text |-> "None", data |-> <<>>]]) :
          m \in MsgIds}

CreateResponseDocs ==
  {Doc("CreateResponse", "None", "r1", r, "None",
       [resource_created |-> rc, res_params |-> rc, body_resource_uri |-> u,
        shell_id |-> s]) :
     r \in RelatesTos, rc \in BOOLEAN, u \in {PS_RESOURCE_URI, "Other"}, s \in ShellIds}

DeleteDocs ==
  {Doc("Delete", u, m, "None", s, NoBody) : u \in Uris, m \in MsgIds, s \in ShellIds}

DeleteResponseDocs ==
  {Doc("DeleteResponse", u, "r1", r, "None", NoBody) :
     u \in {"None", "Other"}, r \in RelatesTos}

CommandDocs ==
  {Doc("Command", u, m, "None", s, [arguments |-> a]) :
     u \in Uris, m \in MsgIds, s \in ShellIds,
     a \in Base64Texts({<<Whole(<<1>>)>>, <<Whole(<<9>>)>>})}

CommandResponseDocs ==
  {Doc("CommandResponse", "None", "r1", r, "None", [command_id |-> c]) :
     r \in RelatesTos, c \in CmdIds}

\* the CommandId attributes of the DesiredStream elements: none, c1, and lists
\* in which a CommandId has the text of the ShellId
DesiredStreams == {<<>>, <<"c1">>, <<"s1">>, <<"s1", "c1">>}

ReceiveDocs ==
  {Doc("Receive", u, m, "None", s, [desired_streams |-> ds]) :
     u \in Uris, m \in MsgIds, s \in ShellIds, ds \in DesiredStreams}

CommandStates ==
  {<<>>, <<[CommandId |-> "c1", State |-> CMD_STATE_DONE, exit_code |-> "0"]>>,
   <<[CommandId |-> "c1", State |-> "Running", exit_code |-> "None"]>>,
   <<[CommandId |-> "c2", State |-> CMD_STATE_DONE, exit_code |-> "None"],
     [CommandId |-> "c1", State |-> "Running", exit_code |-> "0"]>>}

Stream(text, data, command_id) == [text |-> text, data |-> data, CommandId |-> command_id]

GoodStream == Stream("ok", StoredStream(<<<<Whole(<<1>>)>>>>), "c1")

StreamLists ==
  {<<>>, <<GoodStream>>,
   <<Stream("ok", StoredStream(<<<<Whole(<<9>>)>>>>), "c1"), GoodStream>>,
   <<Stream("None", <<>>, "c1"), GoodStream>>,
   <<Stream("bad", <<>>, "None"), GoodStream>>}

ReceiveResponseDocs ==
  {Doc("ReceiveResponse", "None", "r1", r, "None",
       [command_states |-> cs, streams |-> st]) :
     r \in RelatesTos, cs \in CommandStates, st \in StreamLists}

OtherDocs ==
  {Doc("fault", "None", "r1", "None", "None", NoBody),
   Doc("Signal", PS_RESOURCE_URI, "r1", "None", "s1", NoBody),
   Doc("Get", PS_RESOURCE_URI, "r1", "None", "s1", NoBody),
   Doc("None", PS_RESOURCE_URI, "r1", "None", "s1", NoBody),
   [Doc("Receive", PS_RESOURCE_URI, "m1", "None", "s1", [desired_streams |-> <<>>])
      EXCEPT !.header = FALSE],
   [Doc("Receive", PS_RESOURCE_URI, "m1", "None", "s1", [desired_streams |-> <<>>])
      EXCEPT !.parses = FALSE]}

Docs ==
  CreateDocs \cup CreateResponseDocs \cup DeleteDocs \cup DeleteResponseDocs
    \cup CommandDocs \cup CommandResponseDocs \cup ReceiveDocs \cup ReceiveResponseDocs
    \cup OtherDocs

SetWSMan(w) ==
  /\ receive_msgs' = w.receive_msgs
  /\ command_msgs' = w.command_msgs
  /\ delete_msgs' = w.delete_msgs
  /\ create_msgs' = w.create_msgs
  /\ commands' = w.commands
  /\ libwim' = w.libwim
  /\ SetDefrag(w.psrp_defrag)

\* the state after a new_soap call that ended as r
AfterNewSoap(doc, r) ==
  /\ SetWSMan(r.w)
  /\ outcome' = Outcome(doc.action, r.raised, r.escaped,
                         DOMAIN shell_bufs \ DOMAIN r.w.psrp_defrag.shell_bufs,
                         outcome.earlier \/ outcome.raised)

\* an exception that leaves new_soap ends the trace: no later document
NewSoap(doc) ==
  /\ steps < MaxDocs
  /\ ~outcome.escaped
  /\ AfterNewSoap(doc, new_soap(WSMan, doc))
  /\ steps' = steps + 1
  /\ UNCHANGED <<epoch, unreg, pairVars, soapVars, etwVars, xpress, parse, lockVars>>

\* the library is there or it is not: WSManPS.__init__ goes on either way
InitWSMan == InitOther /\ libwim \in {"loaded", "None"} /\ xpress = NoXpress

NextWSMan == \E doc \in Docs : NewSoap(doc)

SpecWSMan == InitWSMan /\ [][NextWSMan]_vars

\* ------------------------------------------------------ two runs side by side
\* One step of two defragmenters: the first is the program's state, the
\* second is `alt`.
PairStep(main, other) ==
  /\ steps < MaxSteps
  /\ SetDefrag(main)
  /\ alt' = other
  /\ steps' = steps + 1
  /\ UNCHANGED <<epoch, unreg, soapVars, restVars>>

\* the id _append_frag_data expects next for the object (psrp.py:156-160)
expected_frag_id_of(d, pend, identifier, object_id) ==
  IF Fresh(d, pend, identifier, object_id) THEN 0
  ELSE BufsOf(d, pend)[identifier][object_id].last_fragment_id + 1

\* --- a run, and the same run with one out-of-order fragment inserted
BothNewShell(shell_id) ==
  /\ PairStep(new_shell(Defrag, shell_id), new_shell(alt, shell_id))
  /\ UNCHANGED phase

BothNewPendingShell(message_id) ==
  /\ PairStep(new_pending_shell(Defrag, message_id), new_pending_shell(alt, message_id))
  /\ UNCHANGED phase

BothNewFragment(shell_id, object_id, fragment_id, s_flag, e_flag, frag_data) ==
  /\ PairStep(new_fragment(Defrag, shell_id, object_id, fragment_id, s_flag, e_flag,
                           frag_data, 0).d,
              new_fragment(alt, shell_id, object_id, fragment_id, s_flag, e_flag,
                           frag_data, 0).d)
  /\ UNCHANGED phase

BothNewFragmentData(shell_id, fragment_data, command_id) ==
  /\ PairStep(new_fragment_data(Defrag, shell_id, fragment_data, command_id, 0).d,
              new_fragment_data(alt, shell_id, fragment_data, command_id, 0).d)
  /\ UNCHANGED phase

BothNewFragmentDataPendingShell(message_id, fragment_data) ==
  /\ PairStep(new_fragment_data_pending_shell(Defrag, message_id, fragment_data, "None").d,
              new_fragment_data_pending_shell(alt, message_id, fragment_data, "None").d)
  /\ UNCHANGED phase

BothSetPendingShellId(message_id, shell_id) ==
  /\ PairStep(set_pending_shell_id(Defrag, message_id, shell_id, 0).d,
              set_pending_shell_id(alt, message_id, shell_id, 0).d)
  /\ UNCHANGED phase

BothDeleteShell(shell_id) ==
  /\ PairStep(delete_shell(Defrag, shell_id), delete_shell(alt, shell_id))
  /\ UNCHANGED phase

\* the inserted fragment: its id is not the one expected for its buffer, and
\* only the first run receives it
InsertFragment(shell_id, object_id, fragment_id, s_flag, e_flag, frag_data) ==
  /\ phase.stage = "none"
  /\ fragment_id # expected_frag_id_of(Defrag, FALSE, shell_id, object_id)
  /\ PairStep(new_fragment(Defrag, shell_id, object_id, fragment_id, s_flag, e_flag,
                           frag_data, 0).d,
              alt)
  /\ phase' = [phase EXCEPT !.stage = "inserted"]

InsertPendingFragment(message_id, f) ==
  /\ phase.stage = "none"
  /\ f.fragment_id # expected_frag_id_of(Defrag, TRUE, message_id, f.object_id)
  /\ PairStep(new_fragment_data_pending_shell(Defrag, message_id, <<f>>, "None").d, alt)
  /\ phase' = [phase EXCEPT !.stage = "inserted"]

NextInsert ==
  \/ \E s \in Shells : BothNewShell(s)
  \/ \E m \in MsgIds : BothNewPendingShell(m)
  \/ \E s \in Shells, o \in Objects, f \in FragIds, sf \in BOOLEAN, e \in BOOLEAN,
        p \in Payloads : BothNewFragment(s, o, f, sf, e, p)
  \/ \E s \in Shells, b \in Blobs, c \in CmdIds : BothNewFragmentData(s, b, c)
  \/ \E m \in MsgIds, b \in Blobs : BothNewFragmentDataPendingShell(m, b)
  \/ \E m \in MsgIds, s \in Shells : BothSetPendingShellId(m, s)
  \/ \E s \in Shells : BothDeleteShell(s)
  \/ \E s \in Shells, o \in Objects, f \in FragIds, sf \in BOOLEAN, e \in BOOLEAN,
        p \in Payloads : InsertFragment(s, o, f, sf, e, p)
  \/ \E m \in MsgIds, f \in Frags : InsertPendingFragment(m, f)

SpecInsert == Init /\ [][NextInsert]_vars

\* --- a shell fed while pending and then promoted, and the same fragments
\* --- fed to a shell opened with new_shell from the start
OpenBoth(message_id, shell_id) ==
  /\ phase.stage = "none"
  /\ PairStep(new_pending_shell(Defrag, message_id), new_shell(alt, shell_id))
  /\ phase' = [stage |-> "feeding", next |-> 0]

\* one fragment, in order: its id is the one after the last fragment fed
FeedInOrder(message_id, shell_id, f) ==
  /\ phase.stage = "feeding"
  /\ f.fragment_id = phase.next
  /\ PairStep(new_fragment_data_pending_shell(Defrag, message_id, <<f>>, "None").d,
              new_fragment_data(alt, shell_id, <<f>>, "None", 0).d)
  /\ phase' = [phase EXCEPT !.next = IF f.e_flag THEN 0 ELSE f.fragment_id + 1]

Promote(message_id, shell_id) ==
  /\ phase.stage = "feeding"
  /\ PairStep(set_pending_shell_id(Defrag, message_id, shell_id, 0).d, alt)
  /\ phase' = [phase EXCEPT !.stage = "promoted"]

FeedLater(shell_id, fragment_data, command_id) ==
  /\ phase.stage = "promoted"
  /\ PairStep(new_fragment_data(Defrag, shell_id, fragment_data, command_id, 0).d,
              new_fragment_data(alt, shell_id, fragment_data, command_id, 0).d)
  /\ UNCHANGED phase

NextPromote ==
  \/ \E m \in MsgIds, s \in Shells : OpenBoth(m, s)
  \/ \E m \in MsgIds, s \in Shells, f \in Frags : FeedInOrder(m, s, f)
  \/ \E m \in MsgIds, s \in Shells : Promote(m, s)
  \/ \E s \in Shells, b \in Blobs, c \in CmdIds : FeedLater(s, b, c)

SpecPromote == Init /\ [][NextPromote]_vars

\* ---------------------------------------------------------- SoapDefragmenter
\* The defragmenter as a record; `emitted` is the log of the calls made to
\* completed_soap_callback.
SoapDefrag == [partial_messages |-> partial_messages, emitted |-> emitted]

InitSoapDefrag == [partial_messages |-> EmptyDict, emitted |-> <<>>]

\* activity_id falls back to -1, written here as the text the key is made of
activity_id_of(event) ==
  IF "ActivityId" \in DOMAIN event.EventHeader THEN event.EventHeader.ActivityId
  ELSE "-1"

\* mkey = '{}_{}_{}'.format(activity_id, pid, tid)
mkey_of(event) ==
  activity_id_of(event) \o "_" \o ToString(event.EventHeader.ProcessId)
                        \o "_" \o ToString(event.EventHeader.ThreadId)

\* new_event with an error handler that drops every assembly
new_event_drops_all(sd, event, ord, at) ==
  LET mkey == mkey_of(event)
      pm == IF mkey \in DOMAIN sd.partial_messages THEN sd.partial_messages
            ELSE Put(sd.partial_messages, mkey,
                     [total_chunks |-> event.totalChunks, last_chunk |-> 0,
                      pid |-> event.EventHeader.ProcessId,
                      tid |-> event.EventHeader.ThreadId, soap |-> "", chunks |-> <<>>])
      chunk_index == event.index
      entry == [pm[mkey] EXCEPT !.last_chunk = @ + 1,
                                !.soap = @ \o event.SoapDocument,
                                !.chunks = Append(@, [index |-> chunk_index,
                                                      text |-> event.SoapDocument,
                                                      ord |-> ord, at |-> at])]
      doc == [activity_id |-> activity_id_of(event), pid |-> event.EventHeader.ProcessId,
              tid |-> event.EventHeader.ThreadId, soap |-> entry.soap,
              mkey |-> mkey, total_chunks |-> entry.total_chunks, chunks |-> entry.chunks]
  IN IF chunk_index # pm[mkey].last_chunk + 1
     THEN [sd EXCEPT !.partial_messages = EmptyDict]
     ELSE IF chunk_index = entry.total_chunks
     THEN [partial_messages |-> Drop(pm, mkey), emitted |-> Append(sd.emitted, doc)]
     ELSE [sd EXCEPT !.partial_messages = Put(pm, mkey, entry)]

\* new_event that takes a chunk whatever its index
new_event_any_index(sd, event, ord, at) ==
  LET mkey == mkey_of(event)
      pm == IF mkey \in DOMAIN sd.partial_messages THEN sd.partial_messages
            ELSE Put(sd.partial_messages, mkey,
                     [total_chunks |-> event.totalChunks, last_chunk |-> 0,
                      pid |-> event.EventHeader.ProcessId,
                      tid |-> event.EventHeader.ThreadId, soap |-> "", chunks |-> <<>>])
      chunk_index == event.index
      entry == [pm[mkey] EXCEPT !.last_chunk = @ + 1,
                                !.soap = @ \o event.SoapDocument,
                                !.chunks = Append(@, [index |-> chunk_index,
                                                      text |-> event.SoapDocument,
                                                      ord |-> ord, at |-> at])]
      doc == [activity_id |-> activity_id_of(event), pid |-> event.EventHeader.ProcessId,
              tid |-> event.EventHeader.ThreadId, soap |-> entry.soap,
              mkey |-> mkey, total_chunks |-> entry.total_chunks, chunks |-> entry.chunks]
  IN IF chunk_index = entry.total_chunks
     THEN [partial_messages |-> Drop(pm, mkey), emitted |-> Append(sd.emitted, doc)]
     ELSE [sd EXCEPT !.partial_messages = Put(pm, mkey, entry)]

\* new_event that leaves the entry in place after the callback
new_event_keeps_entry(sd, event, ord, at) ==
  LET mkey == mkey_of(event)
      pm == IF mkey \in DOMAIN sd.partial_messages THEN sd.partial_messages
            ELSE Put(sd.partial_messages, mkey,
                     [total_chunks |-> event.totalChunks, last_chunk |-> 0,
                      pid |-> event.EventHeader.ProcessId,
                      tid |-> event.EventHeader.ThreadId, soap |-> "", chunks |-> <<>>])
      chunk_index == event.index
      entry == [pm[mkey] EXCEPT !.last_chunk = @ + 1,
                                !.soap = @ \o event.SoapDocument,
                                !.chunks = Append(@, [index |-> chunk_index,
                                                      text |-> event.SoapDocument,
                                                      ord |-> ord, at |-> at])]
      doc == [activity_id |-> activity_id_of(event), pid |-> event.EventHeader.ProcessId,
              tid |-> event.EventHeader.ThreadId, soap |-> entry.soap,
              mkey |-> mkey, total_chunks |-> entry.total_chunks, chunks |-> entry.chunks]
  IN IF chunk_index # pm[mkey].last_chunk + 1
     THEN [sd EXCEPT !.partial_messages = Drop(pm, mkey)]
     ELSE IF chunk_index = entry.total_chunks
     THEN [partial_messages |-> Put(pm, mkey, entry), emitted |-> Append(sd.emitted, doc)]
     ELSE [sd EXCEPT !.partial_messages = Put(pm, mkey, entry)]

\* SoapDefragmenter.new_event, the whole body under self.lock.  `ord` and
\* `at` are history: the event's number within its key and among all events;
\* `chunks` records what an entry was assembled from.
new_event(sd, event, ord, at) ==
  LET mkey == mkey_of(event)
      pm == IF mkey \in DOMAIN sd.partial_messages THEN sd.partial_messages
            ELSE Put(sd.partial_messages, mkey,
                     [total_chunks |-> event.totalChunks, last_chunk |-> 0,
                      pid |-> event.EventHeader.ProcessId,
                      tid |-> event.EventHeader.ThreadId, soap |-> "", chunks |-> <<>>])
      chunk_index == event.index
      entry == [pm[mkey] EXCEPT !.last_chunk = @ + 1,
                                !.soap = @ \o event.SoapDocument,
                                !.chunks = Append(@, [index |-> chunk_index,
                                                      text |-> event.SoapDocument,
                                                      ord |-> ord, at |-> at])]
      doc == [activity_id |-> activity_id_of(event), pid |-> event.EventHeader.ProcessId,
              tid |-> event.EventHeader.ThreadId, soap |-> entry.soap,
              mkey |-> mkey, total_chunks |-> entry.total_chunks, chunks |-> entry.chunks]
  IN IF chunk_index # pm[mkey].last_chunk + 1
     THEN \* SoapDefragmenterException: the handler drops the key's entry
          [sd EXCEPT !.partial_messages = Drop(pm, mkey)]
     ELSE IF chunk_index = entry.total_chunks
     THEN [partial_messages |-> Drop(pm, mkey), emitted |-> Append(sd.emitted, doc)]
     ELSE [sd EXCEPT !.partial_messages = Put(pm, mkey, entry)]

\* --- history of the chunk streams
Seen(mkey) == IF mkey \in DOMAIN seen THEN seen[mkey] ELSE 0

SoloOf(mkey) == IF mkey \in DOMAIN solo THEN solo[mkey] ELSE InitSoapDefrag

NoRun == [live |-> FALSE, total |-> 0, texts |-> <<>>, fresh |-> FALSE, broke |-> FALSE]

RunOf(mkey) == IF mkey \in DOMAIN chunk_runs THEN chunk_runs[mkey] ELSE NoRun

\* the run of chunks 1, 2, ... with one totalChunks the key is in after the
\* event; `fresh`: no assembly of the key was in progress when chunk 1 came;
\* `broke`: the event's index was not last_chunk + 1 of an assembly in progress
RunAfter(run, pm, mkey, event) ==
  LET had == mkey \in DOMAIN pm
      broke == had /\ event.index # pm[mkey].last_chunk + 1
  IN IF event.index = 1
     THEN [live |-> TRUE, total |-> event.totalChunks, texts |-> <<event.SoapDocument>>,
           fresh |-> ~had, broke |-> broke]
     ELSE IF /\ run.live
             /\ Len(run.texts) < run.total
             /\ event.index = Len(run.texts) + 1
             /\ event.totalChunks = run.total
     THEN [run EXCEPT !.texts = Append(@, event.SoapDocument), !.broke = broke]
     ELSE [NoRun EXCEPT !.broke = broke]

NewEvent(event) ==
  LET mkey == mkey_of(event)
      r == new_event(SoapDefrag, event, Seen(mkey) + 1, steps + 1)
  IN /\ steps < MaxSoapEvents
     /\ partial_messages' = r.partial_messages
     /\ emitted' = r.emitted
     /\ solo' = Put(solo, mkey, new_event(SoloOf(mkey), event, Seen(mkey) + 1, steps + 1))
     /\ seen' = Put(seen, mkey, Seen(mkey) + 1)
     /\ chunk_runs' = Put(chunk_runs, mkey, RunAfter(RunOf(mkey), partial_messages, mkey, event))
     /\ steps' = steps + 1
     /\ UNCHANGED <<shell_bufs, pending_shell_bufs, pending_shell_completed_messages,
                    delivered, epoch, unreg, pairVars, restVars>>

NextSoap == \E event \in Events : NewEvent(event)

SpecSoap == Init /\ [][NextSoap]_vars

\* --- one chunk stream with messages of up to MaxRunChunks chunks
MaxRunChunks == 3
MaxRunEvents == 3

RunEvents ==
  [EventHeader : {[ActivityId |-> "A", ProcessId |-> 7, ThreadId |-> 8]},
   index : 1 .. MaxRunChunks, totalChunks : 1 .. MaxRunChunks,
   SoapDocument : SoapDocuments]

NewRunEvent(event) ==
  LET mkey == mkey_of(event)
      r == new_event(SoapDefrag, event, Seen(mkey) + 1, steps + 1)
  IN /\ steps < MaxRunEvents
     /\ partial_messages' = r.partial_messages
     /\ emitted' = r.emitted
     /\ solo' = Put(solo, mkey, new_event(SoloOf(mkey), event, Seen(mkey) + 1, steps + 1))
     /\ seen' = Put(seen, mkey, Seen(mkey) + 1)
     /\ chunk_runs' = Put(chunk_runs, mkey, RunAfter(RunOf(mkey), partial_messages, mkey, event))
     /\ steps' = steps + 1
     /\ UNCHANGED <<shell_bufs, pending_shell_bufs, pending_shell_completed_messages,
                    delivered, epoch, unreg, pairVars, restVars>>

NextRun == \E event \in RunEvents : NewRunEvent(event)

SpecRun == Init /\ [][NextRun]_vars

\* ------------------------------------------- fragments of several objects
MaxKeySteps == 3

KeyShells == {"s1", "s2"}
KeyObjects == {7, 8}

\* fragments 0 and 1 of two objects
KeyFrags ==
  [object_id : KeyObjects, fragment_id : 0 .. 1, e_flag : BOOLEAN, frag_data : Payloads]

\* a stream carrying one whole message of each of two objects
KeyBlobs ==
  {<<f, g>> : f \in {x \in KeyFrags : x.fragment_id = 0 /\ x.e_flag},
              g \in {x \in KeyFrags : x.fragment_id = 0 /\ x.e_flag}}

\* the defragmenter that is given the fragments of (shell_id, object_id) only
SoloKey(shell_id, object_id) ==
  IF <<shell_id, object_id>> \in DOMAIN solo THEN solo[<<shell_id, object_id>>]
  ELSE InitDefrag

OfObject(fragment_data, object_id) ==
  SelectSeq(fragment_data, LAMBDA f : f.object_id = object_id)

\* every key's own defragmenter after the stream: it is given the fragments
\* of its object, in the order they have in the stream
SoloAfter(shell_id, fragment_data) ==
  LET touched == {<<shell_id, fragment_data[i].object_id>> : i \in DOMAIN fragment_data}
  IN [k \in DOMAIN solo \cup touched |->
        IF k \in touched
        THEN new_fragment_data(SoloKey(k[1], k[2]), k[1], OfObject(fragment_data, k[2]),
                               "None", 0).d
        ELSE solo[k]]

KeyNewFragment(shell_id, f) ==
  /\ steps < MaxKeySteps
  /\ SetDefrag(new_fragment(Defrag, shell_id, f.object_id, f.fragment_id,
                            f.fragment_id = 0, f.e_flag, f.frag_data, 0).d)
  /\ solo' = Put(solo, <<shell_id, f.object_id>>,
                 new_fragment(SoloKey(shell_id, f.object_id), shell_id, f.object_id,
                              f.fragment_id, f.fragment_id = 0, f.e_flag, f.frag_data, 0).d)
  /\ steps' = steps + 1
  /\ UNCHANGED <<epoch, unreg, pairVars, partial_messages, emitted, chunk_runs, seen,
                 restVars>>

KeyNewFragmentData(shell_id, fragment_data) ==
  /\ steps < MaxKeySteps
  /\ SetDefrag(new_fragment_data(Defrag, shell_id, fragment_data, "None", 0).d)
  /\ solo' = SoloAfter(shell_id, fragment_data)
  /\ steps' = steps + 1
  /\ UNCHANGED <<epoch, unreg, pairVars, partial_messages, emitted, chunk_runs, seen,
                 restVars>>

NextKeys ==
  \/ \E s \in KeyShells, f \in KeyFrags : KeyNewFragment(s, f)
  \/ \E s \in KeyShells, b \in KeyBlobs : KeyNewFragmentData(s, b)

SpecKeys == Init /\ [][NextKeys]_vars

\* ------------------------------------- _new_fragment_data over a byte string
MaxParseFrags == 2

FRAG_HEADER_LEN == 21

\* fragments as they are before they are packed: e_s holds the start flag in
\* bit 0 and the end flag in bit 1; object 300 needs two bytes
ParseFrags ==
  [object_id : {7, 300}, fragment_id : 0 .. 1, e_s : 0 .. 3,
   frag_data : {<<>>, <<9>>}]

ParseFragLists(k) == [1 .. k -> ParseFrags]

\* an unsigned integer as n bytes, most significant first
RECURSIVE BigEndian(_, _)
BigEndian(v, n) == IF n = 0 THEN <<>> ELSE BigEndian(v \div 256, n - 1) \o <<v % 256>>

\* struct.pack('>qqbI', object_id, fragment_id, e_s, length) and the payload
Packed(f) ==
  BigEndian(f.object_id, 8) \o BigEndian(f.fragment_id, 8) \o <<f.e_s>>
    \o BigEndian(Len(f.frag_data), 4) \o f.frag_data

RECURSIVE PackedAll(_)
PackedAll(fragments) ==
  IF fragments = <<>> THEN <<>> ELSE Packed(Head(fragments)) \o PackedAll(Tail(fragments))

\* big-endian bytes as a number (the ids of the inputs are below 2^31)
RECURSIVE unpack_be(_)
unpack_be(bytes) ==
  IF bytes = <<>> THEN 0
  ELSE unpack_be(SubSeq(bytes, 1, Len(bytes) - 1)) * 256 + bytes[Len(bytes)]

\* data[start:end]: a slice ends where the data end
Slice(data, start, end) ==
  SubSeq(data, start + 1, IF end < Len(data) THEN end ELSE Len(data))

start_bit_set(e_s) == e_s % 2 = 1
end_bit_set(e_s) == (e_s \div 2) % 2 = 1

\* the while loop of _new_fragment_data: [d, raised, submitted], `submitted`
\* the calls of _append_frag_data in order
RECURSIVE new_fragment_data_bytes(_, _, _, _, _, _, _)
\* the rest of the loop once _append_frag_data has ended as r
parse_next(r, pend, identifier, fragment_data, frag_offset, command_id, submitted) ==
  IF r.raised THEN [d |-> r.d, raised |-> TRUE, submitted |-> submitted]
  ELSE new_fragment_data_bytes(r.d, pend, identifier, fragment_data, frag_offset,
                               command_id, submitted)

\* one iteration, the header of 21 bytes in hand
parse_fragment(d, pend, identifier, fragment_data, frag_offset, command_id, submitted, header) ==
  LET object_id == unpack_be(SubSeq(header, 1, 8))
      fragment_id == unpack_be(SubSeq(header, 9, 16))
      e_s == header[17]
      frag_len == unpack_be(SubSeq(header, 18, 21))
      data_start == frag_offset + FRAG_HEADER_LEN
      data_end == frag_offset + FRAG_HEADER_LEN + frag_len
      frag_data == Slice(fragment_data, data_start, data_end)
  IN parse_next(append_frag_data(d, pend, identifier, object_id, fragment_id,
                                 start_bit_set(e_s), end_bit_set(e_s), frag_data,
                                 command_id, 0),
                pend, identifier, fragment_data, data_end, command_id,
                Append(submitted, [object_id |-> object_id, fragment_id |-> fragment_id,
                                   s_flag |-> start_bit_set(e_s),
                                   e_flag |-> end_bit_set(e_s), frag_data |-> frag_data]))

new_fragment_data_bytes(d, pend, identifier, fragment_data, frag_offset, command_id, submitted) ==
  IF frag_offset >= Len(fragment_data)
  THEN [d |-> d, raised |-> FALSE, submitted |-> submitted]
  ELSE IF Len(Slice(fragment_data, frag_offset, frag_offset + FRAG_HEADER_LEN))
            # FRAG_HEADER_LEN
  THEN [d |-> d, raised |-> TRUE, submitted |-> submitted]   \* struct.error
  ELSE parse_fragment(d, pend, identifier, fragment_data, frag_offset, command_id,
                      submitted,
                      Slice(fragment_data, frag_offset, frag_offset + FRAG_HEADER_LEN))

\* the byte strings given to new_fragment_data: the packed fragments one after
\* the other, and the same with the last byte missing
WellFormedInput(fragments) ==
  [NoParse EXCEPT !.fragments = fragments, !.fragment_data = PackedAll(fragments),
                  !.at = "called"]

\* the same bytes with the last one missing
TruncatedInput(fragments, packed) ==
  [NoParse EXCEPT !.fragments = fragments,
                  !.fragment_data = SubSeq(packed, 1, Len(packed) - 1),
                  !.well_formed = FALSE, !.at = "called"]

ParseInputs(fragments) ==
  IF fragments = <<>> THEN {WellFormedInput(fragments)}
  ELSE {WellFormedInput(fragments), TruncatedInput(fragments, PackedAll(fragments))}

InitParse ==
  /\ shell_bufs = EmptyDict
  /\ pending_shell_bufs = EmptyDict
  /\ pending_shell_completed_messages = EmptyDict
  /\ delivered = <<>>
  /\ epoch = [s \in Shells |-> 0]
  /\ unreg = {}
  /\ steps = 0
  /\ alt = InitDefrag
  /\ phase = [stage |-> "none", next |-> 0]
  /\ partial_messages = EmptyDict
  /\ emitted = <<>>
  /\ solo = EmptyDict
  /\ chunk_runs = EmptyDict
  /\ seen = EmptyDict
  /\ receive_msgs = EmptyDict
  /\ command_msgs = EmptyDict
  /\ delete_msgs = EmptyDict
  /\ create_msgs = <<>>
  /\ commands = EmptyDict
  /\ shells = <<>>
  /\ activity_shell_contexts = EmptyDict
  /\ outcome = NoOutcome
  /\ lock = [c \in Components |-> "None"]
  /\ threads = [t \in Threads |-> Idle]
  /\ libwim = "loaded"
  /\ xpress = NoXpress
  /\ \E k \in 0 .. MaxParseFrags : \E fragments \in ParseFragLists(k) :
       parse \in ParseInputs(fragments)

\* the call as it ended
Parsed(r) ==
  /\ SetDefrag(r.d)
  /\ parse' = [parse EXCEPT !.submitted = r.submitted,
                            !.at = IF r.raised THEN "raised" ELSE "returned"]

\* new_fragment_data(shell_id, fragment_data)
NewFragmentDataBytes(shell_id) ==
  /\ parse.at = "called"
  /\ Parsed(new_fragment_data_bytes(Defrag, FALSE, shell_id, parse.fragment_data, 0,
                                    "None", <<>>))
  /\ UNCHANGED <<epoch, unreg, steps, pairVars, soapVars, wsmanVars, etwVars, outcome,
                 xpress, lockVars>>

NextParse == \E s \in Shells : NewFragmentDataBytes(s)

SpecParse == InitParse /\ [][NextParse]_vars

\* ------------------------------------------------- _decompress_stream_data
MaxBlocks == 2
MaxBody == 2

\* block bodies of 1 .. MaxBody bytes
Bodies == UNION {[1 .. n -> {65, 66}] : n \in 1 .. MaxBody}

\* a block as it was produced: its body as carried in the stream, and whether
\* it was stored verbatim or compressed (then it expands by one byte)
Block(body, stored) == [body |-> body, stored |-> stored]

Blocks == {Block(body, stored) : body \in Bodies, stored \in BOOLEAN}

BlockLists == UNION {[1 .. n -> Blocks] : n \in 1 .. MaxBlocks}

U16(n) == <<n % 256, n \div 256>>

\* the framing: uncompressed_size and compressed_size as u16 LE, each the size
\* less one, then the compressed_size bytes of the body
RECURSIVE Framed(_)
Framed(blocks) ==
  IF blocks = <<>> THEN <<>>
  ELSE LET b == Head(blocks)
           compressed_size == Len(b.body)
           uncompressed_size == IF b.stored THEN compressed_size ELSE compressed_size + 1
       IN U16(uncompressed_size - 1) \o U16(compressed_size - 1) \o b.body
            \o Framed(Tail(blocks))

\* the stream _decompress_stream_data is about to be given
XpressInputs ==
  {[NoXpress EXCEPT !.blocks = blocks, !.stream_blob = Framed(blocks), !.at = "called"] :
     blocks \in BlockLists}

InitXpress == InitOther /\ libwim \in {"loaded", "None"} /\ xpress \in XpressInputs

\* the call as it ended: r is [raised, data, calls]
Decompressed(r) ==
  [xpress EXCEPT !.fully_decompressed = r.data, !.calls = r.calls,
                 !.at = IF r.raised THEN "raised" ELSE "returned"]

DecompressStreamData ==
  /\ xpress.at = "called"
  /\ xpress' = Decompressed(decompress_stream_data(libwim, xpress.stream_blob))
  /\ UNCHANGED <<psrpVars, pairVars, soapVars, wsmanVars, etwVars, outcome, parse, lockVars>>

NextXpress == DecompressStreamData

SpecXpress == InitXpress /\ [][NextXpress]_vars

\* ------------------------------------------------------ PowerShellETWParser
MaxEtwEvents == 3

EtwShells == {"s1", "s2"}
Activities == {"A", "B"}

\* Microsoft-Windows-PowerShell events.  `keyword`: "frag" is
\* 0x4000000000000008, "context" is 0x4000000000000100; `activity` "None": the
\* header has no ActivityId; `intact` FALSE: a field the handler reads is
\* missing or does not convert (FragmentId not a number, FragmentPayload not
\* hexadecimal, no param1); "broken": the event has no EventHeader
FragEvents ==
  [keyword : {"frag"}, level : {4, 5}, activity : Activities \cup {"None"},
   frag : {f \in Frags : f.frag_data = <<1>>} \cup {Whole(<<9>>)}, intact : BOOLEAN]

CREATING == "Request %1. Creating a server remote session."
SHELL_CONTEXT == "Shell Context %1. Request Id %2"
OPERATION_COMPLETE == "Reporting operation complete for request: %1"

ContextEvents ==
  [keyword : {"context"}, activity : Activities \cup {"None"},
   Description : {CREATING, SHELL_CONTEXT, OPERATION_COMPLETE, "other"},
   param1 : EtwShells, intact : BOOLEAN]

EtwEvents == FragEvents \cup ContextEvents \cup {[keyword |-> "other"], [keyword |-> "broken"]}

\* the parser with the defragmenter its callback belongs to
EtwParser ==
  [shells |-> shells, activity_shell_contexts |-> activity_shell_contexts,
   psrp_defrag |-> Defrag]

RECURSIVE Without(_, _)
Without(list, v) ==
  IF list = <<>> THEN <<>>
  ELSE IF Head(list) = v THEN Without(Tail(list), v)
  ELSE <<Head(list)>> \o Without(Tail(list), v)

Purge(contexts, v) == [k \in {a \in DOMAIN contexts : contexts[a] # v} |-> contexts[k]]

\* _psrp_frag_event that forwards a fragment of an unbound activity under the
\* activity's own id
psrp_frag_event_unbound(p, event) ==
  IF ~event.intact THEN Raised(p)
  ELSE LET shell_id == IF event.activity \in DOMAIN p.activity_shell_contexts
                       THEN p.activity_shell_contexts[event.activity]
                       ELSE event.activity
           f == event.frag
       IN WithDefrag(p, new_fragment(p.psrp_defrag, shell_id, f.object_id, f.fragment_id,
                                     f.fragment_id = 0, f.e_flag, f.frag_data,
                                     Tag(shell_id)))

\* _psrp_frag_event: the fields are read and converted before the shell
\* context is looked up; completed_callback is PSRPDefragmenter.new_fragment
psrp_frag_event(p, event) ==
  IF ~event.intact THEN Raised(p)
  ELSE IF event.activity \notin DOMAIN p.activity_shell_contexts THEN Done(p)
  ELSE LET shell_id == p.activity_shell_contexts[event.activity]
           f == event.frag
       IN WithDefrag(p, new_fragment(p.psrp_defrag, shell_id, f.object_id, f.fragment_id,
                                     f.fragment_id = 0, f.e_flag, f.frag_data,
                                     Tag(shell_id)))

\* _shell_context_event whose 'Shell Context' branch binds the activity
\* whether or not it is bound already
shell_context_event_rebinds(p, event) ==
  IF event.activity = "None" THEN Done(p)
  ELSE IF event.Description \in {CREATING, SHELL_CONTEXT}
  THEN IF ~event.intact THEN Raised(p)
       ELSE Done([p EXCEPT
                    !.shells = IF InList(@, event.param1) THEN @ ELSE Append(@, event.param1),
                    !.activity_shell_contexts = Put(@, event.activity, event.param1)])
  ELSE IF event.Description = OPERATION_COMPLETE
  THEN IF ~event.intact THEN Raised(p)
       ELSE IF InList(p.shells, event.param1)
       THEN Done([p EXCEPT !.shells = Without(@, event.param1),
                           !.activity_shell_contexts = Purge(@, event.param1)])
       ELSE Done(p)
  ELSE Done(p)

\* _shell_context_event whose 'operation complete' branch forgets the shell
\* and keeps the activities bound to it
shell_context_event_keeps_bindings(p, event) ==
  IF event.activity = "None" THEN Done(p)
  ELSE IF event.Description = CREATING
  THEN IF ~event.intact THEN Raised(p)
       ELSE Done([p EXCEPT
                    !.shells = IF InList(@, event.param1) THEN @ ELSE Append(@, event.param1),
                    !.activity_shell_contexts = Put(@, event.activity, event.param1)])
  ELSE IF event.Description = SHELL_CONTEXT
  THEN IF ~event.intact THEN Raised(p)
       ELSE Done([p EXCEPT
                    !.shells = IF InList(@, event.param1) THEN @ ELSE Append(@, event.param1),
                    !.activity_shell_contexts =
                       IF event.activity \in DOMAIN @ THEN @
                       ELSE Put(@, event.activity, event.param1)])
  ELSE IF event.Description = OPERATION_COMPLETE
  THEN IF ~event.intact THEN Raised(p)
       ELSE IF InList(p.shells, event.param1)
       THEN Done([p EXCEPT !.shells = Without(@, event.param1)])
       ELSE Done(p)
  ELSE Done(p)

shell_context_event(p, event) ==
  IF event.activity = "None" THEN Done(p)
  ELSE IF event.Description = CREATING
  THEN IF ~event.intact THEN Raised(p)
       ELSE Done([p EXCEPT
                    !.shells = IF InList(@, event.param1) THEN @ ELSE Append(@, event.param1),
                    !.activity_shell_contexts = Put(@, event.activity, event.param1)])
  ELSE IF event.Description = SHELL_CONTEXT
  THEN IF ~event.intact THEN Raised(p)
       ELSE Done([p EXCEPT
                    !.shells = IF InList(@, event.param1) THEN @ ELSE Append(@, event.param1),
                    !.activity_shell_contexts =
                       IF event.activity \in DOMAIN @ THEN @
                       ELSE Put(@, event.activity, event.param1)])
  ELSE IF event.Description = OPERATION_COMPLETE
  THEN IF ~event.intact THEN Raised(p)
       ELSE IF InList(p.shells, event.param1)
       THEN Done([p EXCEPT !.shells = Without(@, event.param1),
                           !.activity_shell_contexts = Purge(@, event.param1)])
       ELSE Done(p)
  ELSE Done(p)

etw_new_event_body(p, event) ==
  IF event.keyword = "broken" THEN Raised(p)
  ELSE IF event.keyword = "frag" /\ event.level = 5 THEN psrp_frag_event(p, event)
  ELSE IF event.keyword = "context" THEN shell_context_event(p, event)
  ELSE Done(p)

\* PowerShellETWParser.new_event: the body runs under the lock inside a
\* catch-all
etw_new_event(p, event) == Caught(etw_new_event_body(p, event))

EventName(event) ==
  IF event.keyword = "context" THEN event.Description ELSE event.keyword

\* the state after a new_event call that ended as r
AfterEtwNewEvent(event, r) ==
  /\ shells' = r.w.shells
  /\ activity_shell_contexts' = r.w.activity_shell_contexts
  /\ SetDefrag(r.w.psrp_defrag)
  /\ outcome' = Outcome(EventName(event), r.raised, r.escaped,
                         DOMAIN shell_bufs \ DOMAIN r.w.psrp_defrag.shell_bufs,
                         outcome.earlier \/ outcome.raised)

\* an exception that leaves an entry handler ends the trace: no later event
EtwNewEvent(event) ==
  /\ steps < MaxEtwEvents
  /\ ~outcome.escaped
  /\ AfterEtwNewEvent(event, etw_new_event(EtwParser, event))
  /\ steps' = steps + 1
  /\ UNCHANGED <<epoch, unreg, pairVars, soapVars, wsmanVars, xpress, parse, lockVars>>

NextEtw == \E event \in EtwEvents : EtwNewEvent(event)

SpecEtw == Init /\ [][NextEtw]_vars

\* ------------------------------------------------- the event-entry handlers
\* Microsoft-Windows-WinRM events as the SoapDefragmenter gets them.  `kind`:
\* "ok", or what is wrong with the event: no EventHeader, a totalChunks or an
\* index that is not a number; `callback_raises`: completed_soap_callback
\* raises when it is given the document
SoapEntryEvents ==
  [kind : {"ok", "no_header", "bad_total", "bad_index"},
   event : {e \in Events : e.SoapDocument = "a"}, callback_raises : BOOLEAN]

\* the try block of SoapDefragmenter.new_event with its except clause, which
\* drops the key's entry when the key had been computed
soap_new_event_body(sd, x) ==
  LET mkey == mkey_of(x.event)
      known == mkey \in DOMAIN sd.partial_messages
      last_chunk == IF known THEN sd.partial_messages[mkey].last_chunk ELSE 0
      total_chunks == IF known THEN sd.partial_messages[mkey].total_chunks
                      ELSE x.event.totalChunks
      abandoned == [sd EXCEPT !.partial_messages = Drop(@, mkey)]
  IN IF x.kind = "no_header" THEN Raised(sd)
     ELSE IF x.kind = "bad_total" /\ ~known THEN Raised(sd)
     ELSE IF x.kind = "bad_index" THEN Raised(abandoned)
     ELSE [w |-> new_event(sd, x.event, 0, 0),
           raised |-> \/ x.event.index # last_chunk + 1
                      \/ x.event.index = total_chunks /\ x.callback_raises]

\* SoapDefragmenter.new_event: the body runs under the lock inside a catch-all
soap_new_event(sd, x) == Caught(soap_new_event_body(sd, x))

\* the state after a new_event call that ended as r
AfterSoapNewEvent(r) ==
  /\ partial_messages' = r.w.partial_messages
  /\ emitted' = r.w.emitted
  /\ outcome' = Outcome("chunk", r.raised, r.escaped, {},
                         outcome.earlier \/ outcome.raised)

SoapNewEvent(x) ==
  /\ steps < MaxSoapEvents
  /\ ~outcome.escaped
  /\ AfterSoapNewEvent(soap_new_event(SoapDefrag, x))
  /\ steps' = steps + 1
     /\ UNCHANGED <<shell_bufs, pending_shell_bufs, pending_shell_completed_messages,
                    delivered, epoch, unreg, pairVars, solo, chunk_runs, seen,
                    wsmanVars, etwVars, xpress, parse, lockVars>>

\* the entry handler an event is given to
EtwEventNames == {"frag", "other", "broken", CREATING, SHELL_CONTEXT, OPERATION_COMPLETE}

HandlerOf(name) ==
  IF name = "none" THEN "none"
  ELSE IF name = "chunk" THEN "SoapDefragmenter.new_event"
  ELSE IF name \in EtwEventNames THEN "PowerShellETWParser.new_event"
  ELSE "WSManPS.new_soap"

\* the three entry handlers, each followed through the events it is given:
\* the handlers share no state, SoapDefragmenter reaching WSManPS only through
\* its callback
NextEntry ==
  \/ /\ HandlerOf(outcome.event) \in {"none", "SoapDefragmenter.new_event"}
     /\ \E x \in SoapEntryEvents : SoapNewEvent(x)
  \/ /\ HandlerOf(outcome.event) \in {"none", "WSManPS.new_soap"}
     /\ \E doc \in Docs : NewSoap(doc)
  \/ /\ HandlerOf(outcome.event) \in {"none", "PowerShellETWParser.new_event"}
     /\ \E event \in EtwEvents : EtwNewEvent(event)

SpecEntry == InitWSMan /\ [][NextEntry]_vars

\* ------------------------------------------- the lock of the entry handlers
MaxLockEvents == 3

SOAP == "SoapDefragmenter"
ETW == "PowerShellETWParser"

\* the events the trace threads deliver: chunks of one stream, the last one
\* with a callback that raises or does not, and an event without EventHeader
LockSoapEvents ==
  {x \in SoapEntryEvents :
     /\ "ActivityId" \in DOMAIN x.event.EventHeader
     /\ x.event.index <= 2 /\ x.event.totalChunks <= 2
     /\ \/ x.kind = "ok" /\ (x.callback_raises => x.event.index = x.event.totalChunks)
        \/ x.kind = "no_header" /\ x.event.index = 1 /\ x.event.totalChunks = 1
             /\ ~x.callback_raises}

\* a binding event, a whole fragment of the bound activity, and a fragment
\* whose fields do not convert
LockEtwEvents ==
  {[keyword |-> "context", activity |-> "A", Description |-> CREATING, param1 |-> "s1",
    intact |-> TRUE],
   [keyword |-> "frag", level |-> 5, activity |-> "A", frag |-> Whole(<<1>>),
    intact |-> TRUE],
   [keyword |-> "frag", level |-> 5, activity |-> "A", frag |-> Whole(<<1>>),
    intact |-> FALSE]}

LockEvents(c) == IF c = SOAP THEN LockSoapEvents ELSE LockEtwEvents

\* `with self.lock:` that enters whether or not the lock is held
acquire_unlocked(holder, t) == [entered |-> TRUE, holder |-> t]

\* `with self.lock:` of threading.Lock: the thread enters when no thread
\* holds the lock, and waits otherwise
acquire(holder, t) ==
  IF holder = "None" THEN [entered |-> TRUE, holder |-> t]
  ELSE [entered |-> FALSE, holder |-> holder]

\* leaving the with block releases the lock, on return and on exception alike
release(holder) == "None"

\* the component's state, and the whole handler under the lock
Component(c) == IF c = SOAP THEN SoapDefrag ELSE EtwParser

handled(c, s, x) == IF c = SOAP THEN soap_new_event(s, x) ELSE etw_new_event(s, x)

HandledName(c, x) == IF c = SOAP THEN "chunk" ELSE EventName(x)

\* the try block gets as far as the downstream callback: the chunk is the
\* expected one and the last of its message / the fragment's activity is bound
reaches_callback(c, s, x) ==
  IF c = SOAP
  THEN LET mkey == mkey_of(x.event)
           known == mkey \in DOMAIN s.partial_messages
       IN /\ x.kind \notin {"no_header", "bad_index"}
          /\ ~(x.kind = "bad_total" /\ ~known)
          /\ x.event.index = (IF known THEN s.partial_messages[mkey].last_chunk ELSE 0) + 1
          /\ x.event.index = (IF known THEN s.partial_messages[mkey].total_chunks
                              ELSE x.event.totalChunks)
  ELSE /\ x.keyword = "frag" /\ x.level = 5 /\ x.intact
       /\ x.activity \in DOMAIN s.activity_shell_contexts

\* the state in which the callback is called: SoapDefragmenter has appended
\* the chunk to the entry of its key; PowerShellETWParser has changed nothing
before_callback(c, s, x) ==
  IF c = SOAP
  THEN [s EXCEPT !.partial_messages = new_event_keeps_entry(s, x.event, 0, 0).partial_messages]
  ELSE s

\* the callback and what follows it in the try block, with the except clause
callback(c, s, x) ==
  IF c = SOAP
  THEN LET mkey == mkey_of(x.event)
       IN IF mkey \notin DOMAIN s.partial_messages THEN Caught(Raised(s))   \* KeyError
          ELSE LET entry == s.partial_messages[mkey]
                   doc == [activity_id |-> activity_id_of(x.event),
                           pid |-> x.event.EventHeader.ProcessId,
                           tid |-> x.event.EventHeader.ThreadId, soap |-> entry.soap,
                           mkey |-> mkey, total_chunks |-> entry.total_chunks,
                           chunks |-> entry.chunks]
               IN Caught([w |-> [partial_messages |-> Drop(s.partial_messages, mkey),
                                 emitted |-> Append(s.emitted, doc)],
                          raised |-> x.callback_raises])
  ELSE etw_new_event(s, x)

SetComponent(c, s) ==
  IF c = SOAP
  THEN /\ partial_messages' = s.partial_messages
       /\ emitted' = s.emitted
       /\ UNCHANGED <<shell_bufs, pending_shell_bufs, pending_shell_completed_messages,
                      delivered, etwVars>>
  ELSE /\ shells' = s.shells
       /\ activity_shell_contexts' = s.activity_shell_contexts
       /\ SetDefrag(s.psrp_defrag)
       /\ UNCHANGED <<partial_messages, emitted>>

LockFrame ==
  UNCHANGED <<epoch, unreg, pairVars, solo, chunk_runs, seen, wsmanVars, xpress, parse>>

\* the handling of the event has ended as r: the thread is about to leave
\* the with block
AfterHandled(t, c, x, r) ==
  /\ SetComponent(c, r.w)
  /\ outcome' = Outcome(HandledName(c, x), r.raised, r.escaped, {},
                         outcome.earlier \/ outcome.raised)
  /\ threads' = [threads EXCEPT ![t].pc = "release"]

\* a trace thread calls new_event: `event_id, event = event_tuple`
CallNewEvent(t, c, x) ==
  /\ steps < MaxLockEvents
  /\ threads[t].pc = "idle"
  /\ threads' = [threads EXCEPT ![t] = [pc |-> "waiting", on |-> c, event |-> x,
                                        before |-> "none"]]
  /\ steps' = steps + 1
  /\ UNCHANGED <<shell_bufs, pending_shell_bufs, pending_shell_completed_messages,
                 delivered, partial_messages, emitted, etwVars, outcome, lock>>
  /\ LockFrame

\* `with self.lock:`
Entered(t, c, a) ==
  /\ a.entered
  /\ lock' = [lock EXCEPT ![c] = a.holder]
  /\ threads' = [threads EXCEPT ![t].pc = "try", ![t].before = Component(c)]

Acquire(t) ==
  /\ threads[t].pc = "waiting"
  /\ Entered(t, threads[t].on, acquire(lock[threads[t].on], t))
  /\ UNCHANGED <<shell_bufs, pending_shell_bufs, pending_shell_completed_messages,
                 delivered, partial_messages, emitted, etwVars, outcome, steps>>
  /\ LockFrame

\* the try block up to the callback, or to its end when no callback is due
Try(t) ==
  /\ threads[t].pc = "try"
  /\ IF reaches_callback(threads[t].on, Component(threads[t].on), threads[t].event)
     THEN /\ SetComponent(threads[t].on,
                          before_callback(threads[t].on, Component(threads[t].on),
                                          threads[t].event))
          /\ threads' = [threads EXCEPT ![t].pc = "callback"]
          /\ UNCHANGED outcome
     ELSE AfterHandled(t, threads[t].on, threads[t].event,
                       handled(threads[t].on, Component(threads[t].on), threads[t].event))
  /\ UNCHANGED <<steps, lock>>
  /\ LockFrame

\* completed_soap_callback / completed_callback, and the rest of the try block
Callback(t) ==
  /\ threads[t].pc = "callback"
  /\ AfterHandled(t, threads[t].on, threads[t].event,
                  callback(threads[t].on, Component(threads[t].on), threads[t].event))
  /\ UNCHANGED <<steps, lock>>
  /\ LockFrame

\* the end of the with block; new_event returns
Release(t) ==
  /\ threads[t].pc = "release"
  /\ lock' = [lock EXCEPT ![threads[t].on] = release(@)]
  /\ threads' = [threads EXCEPT ![t] = Idle]
  /\ UNCHANGED <<shell_bufs, pending_shell_bufs, pending_shell_completed_messages,
                 delivered, partial_messages, emitted, etwVars, outcome, steps>>
  /\ LockFrame

NextLock ==
  \/ \E t \in Threads, c \in Components : \E x \in LockEvents(c) : CallNewEvent(t, c, x)
  \/ \E t \in Threads : Acquire(t)
  \/ \E t \in Threads : Try(t)
  \/ \E t \in Threads : Callback(t)
  \/ \E t \in Threads : Release(t)

SpecLock == Init /\ [][NextLock]_vars

\* ------------------------------------------------------------------ claims
RECURSIVE Concat(_)
Concat(seqs) == IF seqs = <<>> THEN <<>> ELSE Head(seqs) \o Concat(Tail(seqs))

PayloadsOf(frags) == [i \in DOMAIN frags |-> frags[i].frag_data]

\* what the downstream callback was given: (shell, object, bytes, command id)
Call(x) == <<x.shell_id, x.object_id, x.message, x.command_id>>
Calls(log) == [i \in DOMAIN log |-> Call(log[i])]

Stashed(d, message_id) ==
  IF message_id \in DOMAIN d.pending_shell_completed_messages
  THEN d.pending_shell_completed_messages[message_id] ELSE <<>>

\* fragments 0 .. fragment_id - 1 of the object were submitted in order, none
\* with the end flag, and fragment_id is the next one
InOrderSoFar(d, pend, identifier, object_id, fragment_id) ==
  IF Fresh(d, pend, identifier, object_id) THEN fragment_id = 0
  ELSE LET fr == BufsOf(d, pend)[identifier][object_id].frags
       IN /\ Len(fr) = fragment_id
          /\ \A k \in DOMAIN fr : fr[k].fragment_id = k - 1 /\ ~fr[k].e_flag

BufferOf(d, pend, identifier, object_id) ==
  IF Fresh(d, pend, identifier, object_id) THEN <<>>
  ELSE BufsOf(d, pend)[identifier][object_id].buffer

\* C1: fragments 0, 1, ..., n of one object submitted in that order, only the
\* last with the end flag, deliver exactly one message, the concatenation of
\* the payloads.  Stated step by step: a fragment that continues an in-order
\* run is appended, and the one carrying the end flag delivers the whole.
C1_InOrderFragmentsDeliverConcatenation ==
  [][\A s \in Shells, o \in Objects, f \in FragIds, sf \in BOOLEAN, e \in BOOLEAN,
        p \in Payloads :
       (InOrderSoFar(Defrag, FALSE, s, o, f) /\ NewFragment(s, o, f, sf, e, p))
         => IF e
            THEN /\ Len(delivered') = Len(delivered) + 1
                 /\ Call(delivered'[Len(delivered')])
                      = <<s, o, BufferOf(Defrag, FALSE, s, o) \o p, "None">>
            ELSE /\ delivered' = delivered
                 /\ InOrderSoFar(Defrag', FALSE, s, o, f + 1)
                 /\ BufferOf(Defrag', FALSE, s, o) = BufferOf(Defrag, FALSE, s, o) \o p
    ]_vars

WellFormedMessage(message, frags) ==
  /\ Len(frags) >= 1
  /\ \A k \in DOMAIN frags :
       frags[k].fragment_id = k - 1 /\ (frags[k].e_flag <=> k = Len(frags))
  /\ message = Concat(PayloadsOf(frags))

\* C2: every delivered message is the concatenation of the payloads of
\* fragments with consecutive ids 0..n, each appended once, the last one
\* carrying the end flag.
C2_DeliveredAreConsecutiveFragments ==
  /\ \A i \in DOMAIN delivered : WellFormedMessage(delivered[i].message, delivered[i].frags)
  /\ \A m \in DOMAIN pending_shell_completed_messages :
       \A i \in DOMAIN pending_shell_completed_messages[m] :
         WellFormedMessage(pending_shell_completed_messages[m][i].message,
                           pending_shell_completed_messages[m][i].frags)

Relabel(stash, shell_id) ==
  [i \in DOMAIN stash |-> <<shell_id, stash[i].object_id, stash[i].message,
                            stash[i].command_id>>]

\* C5: promotion relabels without loss or duplication: every buffer in
\* progress under pending shell m is held under s with the same bytes, and
\* every message stashed for m is delivered exactly once under s, whether or
\* not s was tracked before.
C5_PromotionRelabelsWithoutLoss ==
  [][\A m \in MsgIds, s \in Shells :
       (has_pending_shell(Defrag, m) /\ SetPendingShellId(m, s))
         => /\ \A o \in DOMAIN pending_shell_bufs[m] :
                 /\ has_shell(Defrag', s)
                 /\ o \in DOMAIN shell_bufs'[s]
                 /\ shell_bufs'[s][o].buffer = pending_shell_bufs[m][o].buffer
            /\ Calls(delivered') = Calls(delivered) \o Relabel(Stashed(Defrag, m), s)
    ]_vars

\* C6: messages a pending shell completes are kept back until promotion, and
\* are then delivered under s, each once, in the order they completed.
C6_StashDeliveredInOrderAtPromotion ==
  [][/\ \A m \in MsgIds, b \in Blobs :
          NewFragmentDataPendingShell(m, b) => delivered' = delivered
     /\ \A m \in MsgIds, s \in Shells :
          SetPendingShellId(m, s)
            => Calls(delivered') = Calls(delivered) \o Relabel(Stashed(Defrag, m), s)
    ]_vars

\* C7 as first stated: after delete_shell(s) nothing is delivered under s
\* until new_shell(s) or a promotion registers s again.
C7_NoDeliveryUntilRegisteredAgain ==
  [][\A i \in DOMAIN delivered' :
       i > Len(delivered) => delivered'[i].shell_id \notin unreg'
    ]_vars

\* C7, amended: delete_shell(s) discards what was buffered under s.  Every
\* buffer held under s, and every message delivered under s, is built only
\* from fragments submitted since the last delete_shell(s) (or taken over from
\* a pending shell); a fragment for the deleted shell registers s again by
\* itself and may deliver.
C7_NothingBufferedBeforeDeletionIsDelivered ==
  /\ \A s \in DOMAIN shell_bufs : \A o \in DOMAIN shell_bufs[s] :
       \A k \in DOMAIN shell_bufs[s][o].frags :
         LET f == shell_bufs[s][o].frags[k] IN ~f.pend => f.tag = Tag(s)
  /\ \A i \in DOMAIN delivered : \A k \in DOMAIN delivered[i].frags :
       LET f == delivered[i].frags[k] IN ~f.pend => f.tag = delivered[i].tag

\* a message was delivered under a deleted shell that only its own fragments
\* registered again
C7_Witness ==
  \E i \in DOMAIN delivered :
    /\ delivered[i].shell_id \in unreg
    /\ delivered[i].tag >= 1
    /\ Len(delivered[i].frags) >= 1

\* the messages a run has delivered: (shell, object, bytes)
Messages(log) == {<<log[i].shell_id, log[i].object_id, log[i].message>> : i \in DOMAIN log}

\* C3: a fragment whose id is not last_fragment_id + 1 for its buffer never
\* changes the emitted messages: the run with the fragment inserted delivers
\* exactly the messages (shell, object, bytes) of the run without it.
C3_InsertedFragmentChangesNothing == Messages(delivered) = Messages(alt.delivered)

\* what a defragmenter holds under a shell, history left out
HeldUnder(d, shell_id) ==
  IF shell_id \in DOMAIN d.shell_bufs
  THEN [tracked |-> TRUE,
        bufs |-> [o \in DOMAIN d.shell_bufs[shell_id] |->
                    <<d.shell_bufs[shell_id][o].last_fragment_id,
                      d.shell_bufs[shell_id][o].buffer>>]]
  ELSE [tracked |-> FALSE, bufs |-> EmptyDict]

DeliveredUnder(log, shell_id) ==
  SelectSeq([i \in DOMAIN log |-> <<log[i].shell_id, log[i].object_id, log[i].message>>],
            LAMBDA c : c[1] = shell_id)

\* C4: after in-order pending fragments and the promotion, the buffers held
\* under s and the messages delivered under s are those of a defragmenter in
\* which the same fragments were fed under s opened with new_shell.
C4_PromotedLikeOpenedFromStart ==
  phase.stage = "promoted"
    => \A s \in Shells :
         /\ HeldUnder(Defrag, s) = HeldUnder(alt, s)
         /\ DeliveredUnder(delivered, s) = DeliveredUnder(alt.delivered, s)

OfKey(log, mkey) == SelectSeq(log, LAMBDA doc : doc.mkey = mkey)

\* C8: chunk streams with distinct keys are reassembled independently: under
\* any interleaving each key's emitted documents, and its assembly in
\* progress, are those of a defragmenter that received the key's events alone.
C8_KeysReassembledIndependently ==
  \A mkey \in DOMAIN solo :
    /\ OfKey(emitted, mkey) = solo[mkey].emitted
    /\ mkey \in DOMAIN partial_messages <=> mkey \in DOMAIN solo[mkey].partial_messages
    /\ mkey \in DOMAIN partial_messages
         => partial_messages[mkey] = solo[mkey].partial_messages[mkey]
    /\ DOMAIN solo[mkey].partial_messages \subseteq {mkey}

\* a two-chunk document came out although an event of another key, dropped as
\* out of order, arrived between its chunks
C8_Witness ==
  \E i \in DOMAIN emitted : \E other \in DOMAIN seen :
    /\ other # emitted[i].mkey
    /\ Len(emitted[i].chunks) = 2
    /\ emitted[i].chunks[2].at = emitted[i].chunks[1].at + 2
    /\ OfKey(emitted, other) = <<>>
    /\ other \notin DOMAIN partial_messages

RECURSIVE ConcatText(_)
ConcatText(texts) == IF texts = <<>> THEN "" ELSE Head(texts) \o ConcatText(Tail(texts))

SoapCall(doc) == <<doc.activity_id, doc.pid, doc.tid, doc.soap>>

\* the event ended a run of chunks 1..N with totalChunks = N
RunCompleted(event) ==
  LET run == RunAfter(RunOf(mkey_of(event)), partial_messages, mkey_of(event), event)
  IN run.live /\ Len(run.texts) = run.total

RunTexts(event) ==
  RunAfter(RunOf(mkey_of(event)), partial_messages, mkey_of(event), event).texts

RunFresh(event) ==
  RunAfter(RunOf(mkey_of(event)), partial_messages, mkey_of(event), event).fresh

RunInProgress(event) ==
  LET run == RunAfter(RunOf(mkey_of(event)), partial_messages, mkey_of(event), event)
  IN run.live /\ Len(run.texts) < run.total

CalledOnceWithConcatenation(event) ==
  /\ Len(emitted') = Len(emitted) + 1
  /\ SubSeq(emitted', 1, Len(emitted)) = emitted
  /\ SoapCall(emitted'[Len(emitted')])
       = <<activity_id_of(event), event.EventHeader.ProcessId, event.EventHeader.ThreadId,
           ConcatText(RunTexts(event))>>
  /\ mkey_of(event) \notin DOMAIN partial_messages'

\* C9 as first stated: chunks 1..N with totalChunks = N, in order and with no
\* other event of the key in between, invoke the callback exactly once, on
\* the N-th chunk, with the concatenation, and leave no entry for the key.
C9_InOrderChunksEmitOnce ==
  [][\A event \in Events :
       NewEvent(event)
         => /\ RunCompleted(event) => CalledOnceWithConcatenation(event)
            /\ RunInProgress(event) => emitted' = emitted
    ]_vars

\* C9, amended: the same, provided no assembly of the key is in progress when
\* chunk 1 arrives; a chunk 1 that meets an assembly in progress is dropped
\* with it.
C9_InOrderChunksEmitOnceFromFresh ==
  [][\A event \in Events :
       NewEvent(event)
         => /\ (RunCompleted(event) /\ RunFresh(event)) => CalledOnceWithConcatenation(event)
            /\ RunInProgress(event) => emitted' = emitted
    ]_vars

\* a run of two chunks, begun with no assembly in progress, was completed and
\* its document is the last one emitted
C9_Witness ==
  \E mkey \in DOMAIN chunk_runs :
    /\ chunk_runs[mkey].live /\ chunk_runs[mkey].fresh
    /\ chunk_runs[mkey].total = 2 /\ Len(chunk_runs[mkey].texts) = 2
    /\ emitted # <<>>
    /\ emitted[Len(emitted)].mkey = mkey
    /\ emitted[Len(emitted)].soap = ConcatText(chunk_runs[mkey].texts)
    /\ mkey \notin DOMAIN partial_messages

\* the index is not last_chunk + 1 for the event's key
out_of_order(event) ==
  IF mkey_of(event) \in DOMAIN partial_messages
  THEN event.index # partial_messages[mkey_of(event)].last_chunk + 1
  ELSE event.index # 1

WellFormedDoc(doc) ==
  /\ Len(doc.chunks) = doc.total_chunks
  /\ \A k \in DOMAIN doc.chunks :
       /\ doc.chunks[k].index = k
       /\ k > 1 => doc.chunks[k].ord = doc.chunks[k - 1].ord + 1
  /\ doc.soap = ConcatText([k \in DOMAIN doc.chunks |-> doc.chunks[k].text])

\* C10: a chunk whose index is not last_chunk + 1 removes the key's assembly
\* and invokes no callback; every document emitted consists of the chunks
\* 1..total_chunks received consecutively for its key.
C10_OutOfOrderChunkAbandonsAssembly ==
  /\ [][\A event \in Events :
          (NewEvent(event) /\ out_of_order(event))
            => /\ mkey_of(event) \notin DOMAIN partial_messages'
               /\ emitted' = emitted
      ]_vars
  /\ [](\A i \in DOMAIN emitted : WellFormedDoc(emitted[i]))

\* the key's last event met an assembly in progress with an index that was
\* not last_chunk + 1: the assembly is gone and the event emitted nothing
C10_Witness ==
  \E mkey \in DOMAIN chunk_runs :
    /\ chunk_runs[mkey].broke
    /\ Seen(mkey) >= 2
    /\ mkey \notin DOMAIN partial_messages
    /\ \A i \in DOMAIN emitted : \A k \in DOMAIN emitted[i].chunks :
         emitted[i].mkey = mkey => emitted[i].chunks[k].ord < Seen(mkey)

Tables == <<receive_msgs, command_msgs, delete_msgs, create_msgs, commands>>

\* C11: command lifecycle.  A CommandResponse matching a tracked Command moves
\* the tracking to commands[C] = S and forgets the request's MessageID; a
\* tracked ReceiveResponse that reports C finished takes C out of commands;
\* no other document takes a command id out of commands.
C11_CommandLifecycle ==
  [][\A doc \in Docs :
       (NewSoap(doc) /\ dispatched(doc))
         => /\ ( /\ doc.action = "CommandResponse"
                 /\ doc.relates_to \in DOMAIN command_msgs
                 /\ doc.body.command_id # "None" )
               => /\ doc.body.command_id \in DOMAIN commands'
                  /\ commands'[doc.body.command_id] = command_msgs[doc.relates_to]
                  /\ doc.relates_to \notin DOMAIN command_msgs'
            /\ (doc.action = "ReceiveResponse" /\ doc.relates_to \in DOMAIN receive_msgs)
               => \A i \in DOMAIN commands_finished_of(doc.body.command_states, <<>>) :
                    commands_finished_of(doc.body.command_states, <<>>)[i]
                      \notin DOMAIN commands'
            /\ doc.action # "ReceiveResponse" => DOMAIN commands \subseteq DOMAIN commands'
    ]_vars

TablesHolding(message_id) ==
  {n \in {"create", "delete", "command", "receive"} :
     \/ n = "create" /\ InList(create_msgs, message_id)
     \/ n = "delete" /\ message_id \in DOMAIN delete_msgs
     \/ n = "command" /\ message_id \in DOMAIN command_msgs
     \/ n = "receive" /\ message_id \in DOMAIN receive_msgs}

\* C12: a MessageId is in at most one of create_msgs, delete_msgs,
\* command_msgs and receive_msgs.
C12_MessageIdInOneTable ==
  \A m \in MsgIds \cup {"None", "r1"} : Cardinality(TablesHolding(m)) <= 1

\* C13: when processing a document raises inside a handler, the tracking
\* tables are left as they were before the document.
C13_TablesUntouchedOnException ==
  [][\A doc \in Docs :
       (NewSoap(doc) /\ outcome'.raised) => Tables' = Tables
    ]_vars

\* the relevance rule: (a) PowerShell ResourceURI, (b) a tracked ShellId,
\* (c) RelatesTo of a tracked outgoing request; a CreateResponse carries its
\* ResourceURI in the body
Relevant(doc) ==
  \/ doc.resource_uri = PS_RESOURCE_URI
  \/ /\ doc.action = "CreateResponse" /\ doc.body.resource_created
     /\ doc.body.body_resource_uri = PS_RESOURCE_URI
  \/ has_shell(Defrag, doc.shell_id)
  \/ Cardinality(TablesHolding(doc.relates_to)) >= 1

\* C15: a document with a dispatch-table action has its handler applied
\* whenever one of (a), (b), (c) holds, whatever its other fields; a document
\* meeting none of them changes no state.
C15_RelevantDocumentsAreHandled ==
  [][\A doc \in Docs :
       (NewSoap(doc) /\ doc.parses /\ doc.header /\ doc.action \in ps_actions)
         => IF Relevant(doc)
            THEN WSMan' = handler(WSMan, doc).w
            ELSE WSMan' = WSMan
    ]_vars

\* the streams of an envelope, each on its own: a stream that cannot be
\* decoded or decompressed is left out, the others are fed
RECURSIVE feed_each_stream(_, _, _)
feed_each_stream(d, shell_id, streams) ==
  IF streams = <<>> THEN d
  ELSE LET s == Head(streams)
           decompressed == decompress_stream_data(libwim, s.data)
       IN IF s.text # "ok" \/ decompressed.raised
          THEN feed_each_stream(d, shell_id, Tail(streams))
          ELSE feed_each_stream(new_fragment_data(d, shell_id, decompressed.data,
                                                  s.CommandId, 0).d,
                                shell_id, Tail(streams))

\* the failures the claim lists: no text, undecodable text, no decompressor;
\* the streams that decode carry a message the parser accepts
OnlyStreamFailures(streams) ==
  \A i \in DOMAIN streams : streams[i].text = "ok" => streams[i] = GoodStream

\* C17: in a tracked ReceiveResponse a failure confined to one stream aborts
\* only that stream: the other streams are fed to the defragmenter and the
\* commands reported finished are removed from commands.
C17_StreamFailureAbortsOnlyThatStream ==
  [][\A doc \in ReceiveResponseDocs :
       ( /\ NewSoap(doc) /\ dispatched(doc)
         /\ doc.relates_to \in DOMAIN receive_msgs
         /\ OnlyStreamFailures(doc.body.streams) )
         => /\ Defrag' = feed_each_stream(Defrag, receive_msgs[doc.relates_to],
                                          doc.body.streams)
            /\ \A i \in DOMAIN commands_finished_of(doc.body.command_states, <<>>) :
                 commands_finished_of(doc.body.command_states, <<>>)[i]
                   \notin DOMAIN commands'
    ]_vars

\* C18: pending-shell lifecycle.  A PowerShell Create with MessageID M makes M
\* tracked and pending; the CreateResponse relating to M and carrying ShellId
\* S leaves M in neither create_msgs nor the pending-shell maps and S
\* tracked; every CreateResponse correlated with a tracked Create ends the
\* pending shell.
C18_PendingShellLifecycle ==
  [][\A doc \in Docs :
       (NewSoap(doc) /\ dispatched(doc))
         => /\ ( /\ doc.action = "Create" /\ doc.resource_uri = PS_RESOURCE_URI
                 /\ doc.body.shell /\ doc.body.creation_xml.text = "ok" )
               => /\ InList(create_msgs', doc.message_id)
                  /\ doc.message_id \in DOMAIN pending_shell_bufs'
            /\ (doc.action = "CreateResponse" /\ InList(create_msgs, doc.relates_to))
               => /\ ~InList(create_msgs', doc.relates_to)
                  /\ doc.relates_to \notin DOMAIN pending_shell_bufs'
                  /\ doc.relates_to \notin DOMAIN pending_shell_completed_messages'
                  /\ (doc.body.resource_created /\ doc.body.shell_id # "None")
                       => doc.body.shell_id \in DOMAIN shell_bufs'
    ]_vars

C20_OperationCompleteDestroysShell ==
  [][\A event \in ContextEvents :
       ( /\ EtwNewEvent(event) /\ event.activity # "None" /\ event.intact
         /\ event.Description = OPERATION_COMPLETE )
         => IF InList(shells, event.param1)
            THEN /\ ~InList(shells', event.param1)
                 /\ \A a \in DOMAIN activity_shell_contexts' :
                      activity_shell_contexts'[a] # event.param1
                 /\ \A a \in DOMAIN activity_shell_contexts :
                      activity_shell_contexts[a] # event.param1
                        => /\ a \in DOMAIN activity_shell_contexts'
                           /\ activity_shell_contexts'[a] = activity_shell_contexts[a]
                 /\ ~has_shell(Defrag', event.param1)
            ELSE EtwParser' = EtwParser
    ]_vars

\* C14: no exception leaves an event-entry handler.  Whatever event or
\* document SoapDefragmenter.new_event, PowerShellETWParser.new_event or
\* WSManPS.new_soap is given, and whatever the code it calls raises, the call
\* returns normally, so the trace goes on and later events are processed.
C14_NoExceptionEscapes == ~outcome.escaped

\* after an event whose handling raised, a fragment event was processed and
\* its message delivered
C14_Witness ==
  /\ outcome.earlier /\ ~outcome.raised /\ ~outcome.escaped
  /\ outcome.event = "frag"
  /\ delivered # <<>>

BodiesOf(blocks) == [i \in DOMAIN blocks |-> blocks[i].body]

AllStored(blocks) == \A i \in DOMAIN blocks : blocks[i].stored

\* C16: for a stream of stored blocks (uncompressed_size = compressed_size
\* once both are incremented) _decompress_stream_data returns the
\* concatenation of the block bodies, byte for byte, without a call of the
\* decompression primitive.
C16_StoredBlocksComeOutAsTheyAre ==
  (xpress.at # "called" /\ xpress.at # "idle" /\ AllStored(xpress.blocks))
    => /\ xpress.at = "returned"
       /\ xpress.fully_decompressed = Concat(BodiesOf(xpress.blocks))
       /\ xpress.calls = 0

\* the calls of completed_psrp_callback a step added
NewlyDelivered == SubSeq(delivered', Len(delivered) + 1, Len(delivered'))

\* nothing the defragmenter holds for a shell other than shell_id changed
OnlyShellTouched(shell_id) ==
  /\ DOMAIN shell_bufs' \subseteq DOMAIN shell_bufs \cup {shell_id}
  /\ \A s \in DOMAIN shell_bufs \ {shell_id} :
       s \in DOMAIN shell_bufs' /\ shell_bufs'[s] = shell_bufs[s]
  /\ \A i \in DOMAIN NewlyDelivered : NewlyDelivered[i].shell_id = shell_id

\* C21: a fragment event of the PowerShell provider reaches the defragmenter
\* only when its ActivityId is bound to a shell, and then as a fragment of
\* that shell; with no ActivityId, an unbound one, or one whose binding was
\* purged, the event changes neither the parser nor the defragmenter.
C21_FragmentForwardedUnderBoundShell ==
  [][\A event \in FragEvents :
       (event.level = 5 /\ EtwNewEvent(event))
         => IF event.intact /\ event.activity \in DOMAIN activity_shell_contexts
            THEN LET shell_id == activity_shell_contexts[event.activity]
                     f == event.frag
                 IN /\ shells' = shells
                    /\ activity_shell_contexts' = activity_shell_contexts
                    /\ Defrag' = new_fragment(Defrag, shell_id, f.object_id, f.fragment_id,
                                              f.fragment_id = 0, f.e_flag, f.frag_data,
                                              Tag(shell_id)).d
                    /\ OnlyShellTouched(shell_id)
            ELSE EtwParser' = EtwParser
    ]_vars

\* a fragment event of a bound activity has just been forwarded and its
\* message delivered under the shell the activity is bound to
C21_Witness ==
  /\ outcome.event = "frag" /\ ~outcome.raised
  /\ delivered # <<>>
  /\ \E a \in DOMAIN activity_shell_contexts :
       activity_shell_contexts[a] = delivered[Len(delivered)].shell_id

BindingEvent(event) ==
  /\ event.activity # "None" /\ event.intact
  /\ event.Description \in {CREATING, SHELL_CONTEXT}

\* C30 as stated: after a 'Creating a server remote session' or a 'Shell
\* Context' event with ActivityId A and param1 S, S is a tracked shell and A
\* is bound to S, whatever A was bound to before.
C30_LatestBindingEventDecides ==
  [][\A event \in ContextEvents :
       (BindingEvent(event) /\ EtwNewEvent(event))
         => /\ InList(shells', event.param1)
            /\ event.activity \in DOMAIN activity_shell_contexts'
            /\ activity_shell_contexts'[event.activity] = event.param1
    ]_vars

\* C30, amended: after either event S is a tracked shell; a 'Creating a server
\* remote session' event binds A to S whatever A was bound to, a 'Shell
\* Context' event binds A to S only when A was unbound and otherwise leaves
\* A's binding as it was.  Bindings of other activities stay.
C30_CreatingRebindsShellContextLateBinds ==
  [][\A event \in ContextEvents :
       (BindingEvent(event) /\ EtwNewEvent(event))
         => /\ InList(shells', event.param1)
            /\ DOMAIN activity_shell_contexts'
                 = DOMAIN activity_shell_contexts \cup {event.activity}
            /\ activity_shell_contexts'[event.activity] =
                 IF /\ event.Description = SHELL_CONTEXT
                    /\ event.activity \in DOMAIN activity_shell_contexts
                 THEN activity_shell_contexts[event.activity]
                 ELSE event.param1
            /\ \A a \in DOMAIN activity_shell_contexts \ {event.activity} :
                 activity_shell_contexts'[a] = activity_shell_contexts[a]
            /\ Defrag' = Defrag
    ]_vars

\* activity A, once bound to s1, has just been bound to s2 by a 'Creating a
\* server remote session' event
C30_Witness ==
  /\ outcome.event = CREATING
  /\ shells = <<"s1", "s2">>
  /\ activity_shell_contexts = [a \in {"A"} |-> "s2"]

\* C23: a completed object whose message type is not registered is dropped
\* like a recognised one: the call of the parser returns, and the object's
\* buffer is removed from the defragmenter.
C23_UnknownTypeDroppedLikeRecognised ==
  [][\A s \in Shells, o \in Objects, f \in FragIds, sf \in BOOLEAN, e \in BOOLEAN,
        p \in Payloads :
       (NewFragment(s, o, f, sf, e, p) /\ Len(delivered') = Len(delivered) + 1)
         => /\ s \in DOMAIN shell_bufs'
            /\ o \notin DOMAIN shell_bufs'[s]
    ]_vars

\* what was delivered for one (shell, object)
DeliveredFor(log, shell_id, object_id) ==
  Calls(SelectSeq(log, LAMBDA x : x.shell_id = shell_id /\ x.object_id = object_id))

\* C24: no ordering is needed between objects or shells.  Under any
\* interleaving, the messages delivered for a (shell, object) and the buffer
\* held for it are those of a defragmenter given that key's fragments alone.
C24_KeysDefragmentedIndependently ==
  \A k \in DOMAIN solo :
    /\ DeliveredFor(delivered, k[1], k[2]) = DeliveredFor(solo[k].delivered, k[1], k[2])
    /\ Fresh(Defrag, FALSE, k[1], k[2]) <=> Fresh(solo[k], FALSE, k[1], k[2])
    /\ BufferOf(Defrag, FALSE, k[1], k[2]) = BufferOf(solo[k], FALSE, k[1], k[2])

\* C25: when a fragment with the end flag is accepted, the callback is called
\* exactly once with (identifier, object id, accumulated bytes, command id of
\* that fragment), and the buffer of the object is then removed: the next
\* fragment 0 of the object under the identifier starts from nothing.
C25_EndFragmentDeliversOnceAndRemovesBuffer ==
  [][\A s \in Shells, o \in Objects, f \in FragIds, sf \in BOOLEAN, p \in Payloads :
       (InOrderSoFar(Defrag, FALSE, s, o, f) /\ NewFragment(s, o, f, sf, TRUE, p))
         => /\ Len(delivered') = Len(delivered) + 1
            /\ Call(delivered'[Len(delivered')])
                 = <<s, o, BufferOf(Defrag, FALSE, s, o) \o p, "None">>
            /\ Fresh(Defrag', FALSE, s, o)
            /\ BufferOf(Defrag', FALSE, s, o) = <<>>
    ]_vars

\* C26: a CommandResponse whose RelatesTo M is in command_msgs, bound to S,
\* and which carries CommandId C leaves commands[C] = S and M out of
\* command_msgs, whatever commands held before; a CommandResponse whose
\* RelatesTo is not tracked changes neither table.
C26_CommandResponseMovesTracking ==
  [][\A doc \in CommandResponseDocs :
       (NewSoap(doc) /\ dispatched(doc))
         => IF doc.relates_to \in DOMAIN command_msgs
            THEN doc.body.command_id # "None"
                   => /\ doc.body.command_id \in DOMAIN commands'
                      /\ commands'[doc.body.command_id] = command_msgs[doc.relates_to]
                      /\ doc.relates_to \notin DOMAIN command_msgs'
            ELSE command_msgs' = command_msgs /\ commands' = commands
    ]_vars

\* C27: a Receive related to PowerShell with ShellId S and MessageID M leaves
\* receive_msgs[M] = S; every DesiredStream CommandId that commands did not
\* hold is added as commands[C] = S, and one it held keeps its binding.
C27_ReceiveTracksAndDiscoversCommands ==
  [][\A doc \in ReceiveDocs :
       ( /\ NewSoap(doc) /\ dispatched(doc)
         /\ known_shell_id_or_resource_uri(WSMan, doc).known
         /\ doc.shell_id # "None" )
         => /\ doc.message_id \in DOMAIN receive_msgs'
            /\ receive_msgs'[doc.message_id] = doc.shell_id
            /\ \A i \in DOMAIN doc.body.desired_streams :
                 LET command_id == doc.body.desired_streams[i]
                 IN /\ command_id \in DOMAIN commands'
                    /\ commands'[command_id]
                         = IF command_id \in DOMAIN commands THEN commands[command_id]
                           ELSE doc.shell_id
    ]_vars

\* C28: in a tracked ReceiveResponse every CommandId reported Done or with an
\* ExitCode is absent from commands afterwards, tracked before or not, and a
\* command is removed only once all the streams of the response were fed.
C28_FinishedCommandsRemovedAfterStreams ==
  [][\A doc \in ReceiveResponseDocs :
       ( /\ NewSoap(doc) /\ dispatched(doc)
         /\ doc.relates_to \in DOMAIN receive_msgs )
         => LET finished == commands_finished_of(doc.body.command_states, <<>>)
            IN /\ \A i \in DOMAIN finished : finished[i] \notin DOMAIN commands'
               /\ DOMAIN commands' # DOMAIN commands
                    => Defrag' = feed_each_stream(Defrag, receive_msgs[doc.relates_to],
                                                  doc.body.streams)
    ]_vars
\* C29: a Command accepted as PowerShell-related that carries ShellId S,
\* MessageID M and an Arguments element ends with command_msgs[M] = S, whether
\* or not the Arguments decode, reassemble and parse; when they decode, their
\* bytes are fed to the defragmenter under S.
C29_CommandAlwaysTracked ==
  [][\A doc \in CommandDocs :
       ( /\ NewSoap(doc) /\ dispatched(doc)
         /\ known_shell_id_or_resource_uri(WSMan, doc).known
         /\ doc.shell_id # "None"
         /\ doc.body.arguments.text # "None" )
         => /\ doc.message_id \in DOMAIN command_msgs'
            /\ command_msgs'[doc.message_id] = doc.shell_id
            /\ doc.body.arguments.text = "ok"
                 => Defrag' = new_fragment_data(
                                known_shell_id_or_resource_uri(WSMan, doc).w.psrp_defrag,
                                doc.shell_id, doc.body.arguments.data, "None", 0).d
    ]_vars

\* the threads inside the critical section of a component
Inside(c) == {t \in Threads : threads[t].on = c /\ threads[t].pc \in {"try", "callback", "release"}}

\* the threads inside a downstream callback of a component
InCallback(c) == {t \in Threads : threads[t].on = c /\ threads[t].pc = "callback"}

\* C22: event intake is serialised by the lock of each ingress component.  No
\* two threads are inside the critical section of new_event at once; the
\* section spans parse, append and the downstream callback, so no two
\* callbacks overlap and the component is left as the whole handler leaves it
\* when run alone; the lock is free after every event, one that raised
\* included.
C22_EventIntakeSerialised ==
  [][/\ \A c \in Components :
          /\ Cardinality(Inside(c)') <= 1
          /\ Cardinality(InCallback(c)') <= 1
          /\ \A t \in Threads : t \in Inside(c)' <=> lock'[c] = t
     /\ \A t \in Threads :
          Release(t)
            => /\ lock'[threads[t].on] = "None"
               /\ Component(threads[t].on)
                    = handled(threads[t].on, threads[t].before, threads[t].event).w
    ]_vars

\* thread t1 is inside the callback holding the lock, thread t2 waits for the
\* same lock, and the event handled before raised
C22_Witness ==
  /\ threads["t1"].pc = "callback" /\ threads["t1"].on = SOAP /\ lock[SOAP] = "t1"
  /\ threads["t2"].pc = "waiting" /\ threads["t2"].on = SOAP
  /\ outcome.raised

\* C33: set_pending_shell_id(m, s) is total: whether or not m is a pending
\* shell and whether or not a message was stashed for m, the call returns
\* without raising, and afterwards s is tracked and m is a key of neither
\* pending_shell_bufs nor pending_shell_completed_messages.
C33_SetPendingShellIdIsTotal ==
  [][\A m \in MsgIds, s \in Shells :
       SetPendingShellId(m, s)
         => /\ ~set_pending_shell_id(Defrag, m, s, Tag(s)).raised
            /\ has_shell(Defrag', s)
            /\ m \notin DOMAIN pending_shell_bufs'
            /\ m \notin DOMAIN pending_shell_completed_messages'
    ]_vars

\* C36: in every reachable state, after a callback raised during promotion
\* too, the keys of pending_shell_completed_messages are keys of
\* pending_shell_bufs: nothing stays stashed under a message id that is no
\* longer a pending shell.
C36_StashOnlyForPendingShells ==
  DOMAIN pending_shell_completed_messages \subseteq DOMAIN pending_shell_bufs

\* a fragment as _append_frag_data is to be given it
Unpacked(f) ==
  [object_id |-> f.object_id, fragment_id |-> f.fragment_id,
   s_flag |-> f.e_s \in {1, 3}, e_flag |-> f.e_s \in {2, 3}, frag_data |-> f.frag_data]

\* C31: the fragment-parse loop ends on every input and keeps the order: for
\* the concatenation of k well-formed fragments, _new_fragment_data makes
\* exactly k iterations and submits the k fragments in their order, each with
\* the object id, fragment id, flags and payload of its own header.
C31_ParseLoopSubmitsEachFragmentInOrder ==
  (parse.at \in {"returned", "raised"} /\ parse.well_formed)
    => /\ Len(parse.submitted) = Len(parse.fragments)
       /\ \A i \in DOMAIN parse.submitted : parse.submitted[i] = Unpacked(parse.fragments[i])

\* the documents that can be none of the program's business: the Action is not
\* in the dispatch table, or is Signal or fault, or the header names a
\* ResourceURI other than PowerShell's
UnrelatedDocs ==
  {doc \in Docs :
     /\ doc.parses /\ doc.header
     /\ \/ doc.action \notin ps_actions
        \/ doc.action \in {"Signal", "fault"}
        \/ doc.resource_uri \notin {"None", PS_RESOURCE_URI}}

\* ... and are: with a foreign ResourceURI, neither the shell nor the request
\* the document refers to is tracked
Unrelated(doc) ==
  \/ doc.action \notin ps_actions
  \/ doc.action \in {"Signal", "fault"}
  \/ /\ ~has_shell(Defrag, doc.shell_id)
     /\ TablesHolding(doc.relates_to) = {}

\* C32: a document whose Action is not in the dispatch table, or is Signal or
\* fault, or whose ResourceURI is not PowerShell's with no tracked shell or
\* request involved, leaves create_msgs, delete_msgs, command_msgs,
\* receive_msgs, commands and every buffer of the defragmenter as they were.
C32_UnrelatedDocumentChangesNothing ==
  [][\A doc \in UnrelatedDocs :
       ( /\ outcome'.event = doc.action
         /\ Unrelated(doc) /\ NewSoap(doc) )
         => /\ Tables' = Tables
            /\ shell_bufs' = shell_bufs
            /\ pending_shell_bufs' = pending_shell_bufs
            /\ pending_shell_completed_messages' = pending_shell_completed_messages
            /\ delivered' = delivered
    ]_vars

\* a Signal for shell s1 has been handled while s1 and a Command were tracked
C32_Witness ==
  /\ outcome.event = "Signal" /\ ~outcome.raised
  /\ has_shell(Defrag, "s1")
  /\ command_msgs # EmptyDict

\* C34: with positive totalChunks, between two events every entry left in
\* partial_messages has 1 <= last_chunk < total_chunks, and its soap text is
\* the concatenation of the chunks 1..last_chunk of its key, which arrived one
\* after the other.
C34_PartialMessagesInvariant ==
  \A mkey \in DOMAIN partial_messages :
    LET entry == partial_messages[mkey]
    IN /\ 1 <= entry.last_chunk
       /\ entry.last_chunk < entry.total_chunks
       /\ Len(entry.chunks) = entry.last_chunk
       /\ \A i \in DOMAIN entry.chunks :
            /\ entry.chunks[i].index = i
            /\ entry.chunks[i].ord = entry.chunks[1].ord + i - 1
       /\ entry.chunks[entry.last_chunk].ord = Seen(mkey)
       /\ entry.soap = ConcatText([i \in DOMAIN entry.chunks |-> entry.chunks[i].text])

\* an entry holds chunks 1 and 2 of a message of three, after an earlier
\* message of the key
C34_Witness ==
  \E mkey \in DOMAIN partial_messages :
    /\ partial_messages[mkey].last_chunk = 2
    /\ partial_messages[mkey].total_chunks = 3
    /\ partial_messages[mkey].soap = "ab"
    /\ Seen(mkey) = 3

\* C35: after any sequence of events every shell id an activity is bound to
\* in activity_shell_contexts is a member of shells, and shells holds no id
\* twice.
C35_BoundShellsAreTracked ==
  /\ \A a \in DOMAIN activity_shell_contexts : InList(shells, activity_shell_contexts[a])
  /\ \A i, j \in DOMAIN shells : shells[i] = shells[j] => i = j

\* after a 'Shell Context' event both activities are bound and two shells
\* are tracked, the second of them the shell of activity B
C35_Witness ==
  /\ outcome.event = SHELL_CONTEXT /\ ~outcome.raised
  /\ Len(shells) = 2
  /\ DOMAIN activity_shell_contexts = Activities
  /\ activity_shell_contexts["B"] = shells[2]

\* C37: a request is correlated with at most one response; a second response
\* with the RelatesTo M of a response that was matched and handled performs
\* no promotion, shell deletion, command binding or stream delivery.  For
\* CreateResponse: a pending shell M whose id is not in create_msgs is one
\* whose Create has been answered (the Create tracks M before it makes the
\* pending shell, and only a matching CreateResponse removes M, winrm.py
\* 152-154), so a CreateResponse with RelatesTo M leaves the defragmenter and
\* the deliveries as they are.
C37_SecondCreateResponseIsUnrelated ==
  [][\A doc \in CreateResponseDocs :
       ( /\ outcome'.event = "CreateResponse"
         /\ doc.relates_to \in DOMAIN pending_shell_bufs
         /\ ~InList(create_msgs, doc.relates_to)
         /\ NewSoap(doc) )
         => /\ pending_shell_bufs' = pending_shell_bufs
            /\ shell_bufs' = shell_bufs
            /\ delivered' = delivered
    ]_vars

MapsTo(table, shell_id) == \E k \in DOMAIN table : table[k] = shell_id

\* C38: after a DeleteResponse has deleted shell S, no entry of command_msgs,
\* receive_msgs, delete_msgs or commands still maps to S.
C38_DeletedShellLeavesNoTracking ==
  [][\A doc \in DeleteResponseDocs :
       ( /\ outcome'.event = "DeleteResponse"
         /\ doc.relates_to \in DOMAIN delete_msgs
         /\ has_shell(Defrag, delete_msgs[doc.relates_to])
         /\ ~has_shell(Defrag', delete_msgs[doc.relates_to])
         /\ NewSoap(doc) )
         => /\ ~MapsTo(command_msgs', delete_msgs[doc.relates_to])
            /\ ~MapsTo(receive_msgs', delete_msgs[doc.relates_to])
            /\ ~MapsTo(delete_msgs', delete_msgs[doc.relates_to])
            /\ ~MapsTo(commands', delete_msgs[doc.relates_to])
    ]_vars

\* C39: in the WinRM pipeline, between documents every message id that is a
\* key of pending_shell_bufs is also in create_msgs: no pending shell outlives
\* the tracking of its Create request.
C39_PendingShellsAwaitTheirResponse ==
  \A message_id \in DOMAIN pending_shell_bufs : InList(create_msgs, message_id)

====
